---------------------------- MODULE Spec2Model ----------------------------
(***************************************************************************)
(* Bus-ticket booking backend: HTTP create_booking / cancel_booking,       *)
(* wallet add_money and the agent tool book_seats, over one shared         *)
(* relational store.                                                       *)
(*                                                                         *)
(* Every request owns an ORM session.  A query loads the committed row     *)
(* values of that instant into the session; attribute assignments stay in  *)
(* the session until flush; flush and commit emit UPDATEs that carry the   *)
(* value computed in Python from the loaded one (no SELECT ... FOR UPDATE, *)
(* no version column), and only when that value differs from the loaded    *)
(* one.  The database variables below therefore always hold committed      *)
(* state; what a request has loaded or has pending lives in req[p].        *)
(*                                                                         *)
(* Money columns are Float.  Amounts are counted in a fixed quantum and    *)
(* every arithmetic result is rounded to MantissaBits significant bits,    *)
(* round-half-to-even, as binary floating point does.                      *)
(***************************************************************************)
EXTENDS Integers, Sequences, FiniteSets, Bags, TLC

\* ------------------------------------------------------------------ bounds
MantissaBits == 2
MaxBookings == 2
MaxTransactions == 3
MaxBalance == 6

Procs == {1, 2}
Users == {1, 2}
\* the user who books and tops up when requests run one at a time; the other
\* user only tries to cancel bookings that are not theirs
Bookers == {1}
Schedules == {1, 2}
ScheduleIds == {1, 2, 3}
SeatIds == {1, 2, 3}
AddAmounts == {2, 6}
PaymentMethods == {"wallet", "card"}
\* passenger lists of the requests: one seat, two seats, a seat of the other
\* schedule, a seat of each schedule, the same seat twice, a seat id that no
\* row has
ConcSeatLists == {<<1>>, <<2>>}
SeatLists == {<<1>>, <<2>>, <<3>>, <<1, 2>>, <<1, 3>>, <<1, 1>>, <<2, 2>>,
              <<4>>, <<1, 4>>}

\* seed data: the schedule every seat row belongs to, and its price.  Each
\* price is a representable amount; the total of seats 1 and 2 is not.
SeatSchedule(seat_id) == IF seat_id = 3 THEN 2 ELSE 1
SeatPrice(seat_id) == IF seat_id = 2 THEN 4 ELSE 1

\* ------------------------------------------------------- Float arithmetic
RECURSIVE Pow2(_)
Pow2(n) == IF n = 0 THEN 1 ELSE 2 * Pow2(n - 1)

RECURSIVE UlpFrom(_, _)
UlpFrom(x, u) == IF x < Pow2(MantissaBits) * u THEN u ELSE UlpFrom(x, 2 * u)

\* nearest representable value of a non-negative x, ties to even
RoundNonNeg(x) ==
    LET u == UlpFrom(x, 1)
        q == x \div u
        r == x % u
    IN  IF 2 * r < u THEN q * u
        ELSE IF 2 * r > u THEN (q + 1) * u
        ELSE IF q % 2 = 0 THEN q * u ELSE (q + 1) * u

FloatRound(x) == IF x < 0 THEN 0 - RoundNonNeg(0 - x) ELSE RoundNonNeg(x)

FloatAdd(a, b) == FloatRound(a + b)

FloatSub(a, b) == FloatRound(a - b)

\* ---------------------------------------------------------------- helpers
Range(s) == {s[i] : i \in DOMAIN s}

IsDistinct(s) == \A i, j \in DOMAIN s : i /= j => s[i] /= s[j]

\* ascending list of the members of a finite set of integers
RECURSIVE SortedSeq(_)
SortedSeq(S) ==
    IF S = {} THEN <<>>
    ELSE LET m == CHOOSE x \in S : \A y \in S : x <= y
         IN  <<m>> \o SortedSeq(S \ {m})

VARIABLES
    schedules,          \* bus_schedules: id -> [status, available_seats]
    seats,              \* seats: id -> [bus_schedule_id, price, is_available]
    wallets,            \* wallets: id -> [user_id, balance]
    transactions,       \* transactions rows, as a bag (row ids carry nothing)
    bookings,           \* bookings: id -> row, for the committed ids
    booking_passengers, \* booking_passengers rows in id order
    booking_id_seq,     \* last value handed out by the bookings id sequence
    req,                \* per request slot: the handler's position and session
    hist,               \* observation record of the sequential specification
    chat_sessions,      \* chat_sessions: id -> [user_id, session_id, is_active]
    chat_messages,      \* chat_messages rows in id order
    chat,               \* per request slot: the position of a chat handler
    buses               \* buses: id -> [bus_type, seat_layout, total_seats]

dbvars == <<schedules, seats, wallets, transactions, bookings,
            booking_passengers, booking_id_seq>>

\* what the booking and wallet handlers neither read nor write
sidevars == <<chat_sessions, chat_messages, chat, buses>>

vars == <<schedules, seats, wallets, transactions, bookings,
          booking_passengers, booking_id_seq, req, hist,
          chat_sessions, chat_messages, chat, buses>>

\* the committed tables as one value
Database ==
    [schedules |-> schedules, seats |-> seats, wallets |-> wallets,
     transactions |-> transactions, bookings |-> bookings,
     booking_passengers |-> booking_passengers]

\* a request slot that runs no handler of /agent
NoChat == [op |-> "none", pc |-> "done", result |-> "none", user |-> 0, session |-> 0]

NoRequest ==
    [op |-> "none", pc |-> "done", result |-> "none",
     user |-> 0, schedule_id |-> 0, seat_ids |-> <<>>, payment_method |-> "none",
     booking_id |-> 0, amount |-> 0,
     l_available_seats |-> 0, l_wallet |-> 0, l_balance |-> 0,
     l_seat_flags |-> <<>>, total_amount |-> 0, booking_code |-> [k |-> 0, suffix |-> 0],
     args |-> <<>>, passenger_names |-> "none", passenger_genders |-> "none",
     found |-> <<>>]

Init ==
    /\ schedules = [s \in Schedules |->
                      [status |-> IF s = 1 THEN "scheduled" ELSE "cancelled",
                       available_seats |->
                           Cardinality({x \in SeatIds : SeatSchedule(x) = s})]]
    /\ seats = [x \in SeatIds |->
                  [bus_schedule_id |-> SeatSchedule(x), price |-> SeatPrice(x),
                   is_available |-> TRUE]]
    /\ wallets = <<>>
    /\ transactions = EmptyBag
    /\ bookings = <<>>
    /\ booking_passengers = <<>>
    /\ booking_id_seq = 0
    /\ req = [p \in Procs |-> NoRequest]
    /\ hist = [pre |-> Database, rt_booking |-> 0, rt_pre |-> Database]
    /\ chat_sessions = <<>>
    /\ chat_messages = <<>>
    /\ chat = [p \in Procs |-> NoChat]
    /\ buses = <<>>

\* a finished request keeps only its handler and its outcome
Done(op, result) == [NoRequest EXCEPT !.op = op, !.result = result]

\* db.query(Wallet).filter(Wallet.user_id == u).first(): row id, 0 for None
WalletIdOf(user) ==
    IF \E i \in DOMAIN wallets : wallets[i].user_id = user
    THEN CHOOSE i \in DOMAIN wallets :
            /\ wallets[i].user_id = user
            /\ \A j \in DOMAIN wallets : wallets[j].user_id = user => i <= j
    ELSE 0

\* the unit of work emits an UPDATE for an attribute only when the value
\* assigned differs from the value that was loaded
Flushed(current, loaded, assigned) ==
    IF assigned = loaded THEN current ELSE assigned

\* total_amount accumulated left to right from 0, as sum() and += do
RECURSIVE FloatSumFrom(_, _)
FloatSumFrom(acc, prices) ==
    IF prices = <<>> THEN acc
    ELSE FloatSumFrom(FloatAdd(acc, Head(prices)), Tail(prices))

\* requests that have flushed a wallet UPDATE and not yet committed hold
\* the row lock of that wallet
HoldsWalletRow(q, w) ==
    /\ req[q].op \in {"create", "book"}
    /\ req[q].pc = "commit"
    /\ req[q].payment_method = "wallet"
    /\ req[q].l_wallet = w
    /\ FloatSub(req[q].l_balance, req[q].total_amount) /= req[q].l_balance

WalletRowFree(p, w) == \A q \in Procs \ {p} : ~HoldsWalletRow(q, w)

\* codes of the INSERTs into bookings that are flushed and not yet committed
PendingCodes(p) ==
    {req[q].booking_code :
        q \in {x \in Procs \ {p} :
                 req[x].op \in {"create", "book"} /\ req[x].pc = "commit"}}

\* an uncommitted INSERT of the same unique key makes a second INSERT wait
BookingCodeFree(p, code) == code \notin PendingCodes(p)

\* bookings.booking_code is unique
BookingCodeTaken(code) ==
    \E b \in DOMAIN bookings : bookings[b].booking_code = code

InFlight(ops) == Cardinality({q \in Procs : req[q].op \in ops /\ req[q].pc /= "done"})

RoomForBooking ==
    /\ booking_id_seq + InFlight({"create", "book"}) < MaxBookings
    /\ BagCardinality(transactions) + InFlight({"create", "book", "cancel", "add"}) < MaxTransactions

\* room in the transaction log for the row a request may append
RoomForTransaction ==
    BagCardinality(transactions) + InFlight({"create", "book", "cancel", "add"})
        < MaxTransactions

\* generate_booking_code (k = 6) and the inline generator of book_seats
\* (k = 8): "BK" and k random characters, a draw that is independent of the
\* codes in use.  Suffixes are numbered in order of first appearance, so a
\* draw is one of the suffixes seen so far or the next new one.
GenerateBookingCode(k) ==
    LET used == {bookings[b].booking_code : b \in DOMAIN bookings}
                    \cup PendingCodes(0)
        seen == {c \in used : c.k = k}
    IN  {[k |-> k, suffix |-> n] : n \in 1..(Cardinality(seen) + 1)}

\* the balance check dropped
InsufficientBalance_Unchecked(balance, total_amount) == FALSE

\* the balance check off by one quantum
InsufficientBalance_OffByOne(balance, total_amount) == balance + 1 < total_amount

\* wallet.balance < total_amount
InsufficientBalance(balance, total_amount) == balance < total_amount

\* --------------------------------------------------- POST /bookings (HTTP)
CreateBooking_Begin(p, user, schedule_id, seat_ids, payment_method) ==
    /\ UNCHANGED sidevars
    /\ req[p].pc = "done"
    /\ RoomForBooking
    /\ req' = [req EXCEPT ![p] =
          IF schedule_id \notin DOMAIN schedules
          THEN Done("create", "schedule_not_found")
          ELSE IF schedules[schedule_id].status /= "scheduled"
          THEN Done("create", "schedule_not_bookable")
          ELSE [NoRequest EXCEPT
                  !.op = "create", !.pc = "seats", !.user = user,
                  !.schedule_id = schedule_id, !.seat_ids = seat_ids,
                  !.payment_method = payment_method,
                  !.l_available_seats = schedules[schedule_id].available_seats]]
    /\ UNCHANGED dbvars

\* the query without its schedule filter
SeatRows_AnySchedule(seat_ids, schedule_id) ==
    {x \in DOMAIN seats : x \in Range(seat_ids)}

\* the query filtering on is_available as well
SeatRows_AvailableOnly(seat_ids, schedule_id) ==
    {x \in DOMAIN seats :
        /\ x \in Range(seat_ids)
        /\ seats[x].bus_schedule_id = schedule_id
        /\ seats[x].is_available}

\* rows of  Seat.id IN seat_ids AND Seat.bus_schedule_id == schedule.id
SeatRows(seat_ids, schedule_id) ==
    {x \in DOMAIN seats :
        x \in Range(seat_ids) /\ seats[x].bus_schedule_id = schedule_id}

CreateBooking_Seats(p) ==
    /\ UNCHANGED sidevars
    /\ req[p].op = "create" /\ req[p].pc = "seats"
    /\ LET r == req[p]
           rows == SeatRows(r.seat_ids, r.schedule_id)
           unavailable_seats == {x \in rows : ~seats[x].is_available}
           total == FloatSumFrom(0, [i \in 1..Cardinality(rows) |->
                                       seats[SortedSeq(rows)[i]].price])
       IN  req' = [req EXCEPT ![p] =
             IF Cardinality(rows) /= Len(r.seat_ids)
             THEN Done("create", "seat_not_found")
             ELSE IF unavailable_seats /= {}
             THEN Done("create", "seat_unavailable")
             ELSE [r EXCEPT !.total_amount = total,
                            !.pc = IF r.payment_method = "wallet"
                                   THEN "wallet" ELSE "flush"]]
    /\ UNCHANGED dbvars

CreateBooking_Wallet(p) ==
    /\ UNCHANGED sidevars
    /\ req[p].op = "create" /\ req[p].pc = "wallet"
    /\ LET r == req[p]
           w == WalletIdOf(r.user)
       IN  req' = [req EXCEPT ![p] =
             IF w = 0 \/ InsufficientBalance(wallets[w].balance, r.total_amount)
             THEN Done("create", "insufficient_balance")
             ELSE [r EXCEPT !.l_wallet = w, !.l_balance = wallets[w].balance,
                            !.pc = "flush"]]
    /\ UNCHANGED dbvars

\* the debit applied to every wallet row
DebitedWallets_EveryWallet(r) ==
    IF r.payment_method = "wallet"
    THEN [w \in DOMAIN wallets |->
            [wallets[w] EXCEPT !.balance = FloatSub(@, r.total_amount)]]
    ELSE wallets

\* rows written by the commit of a booking, shared by both front ends
DebitedWallets(r) ==
    IF r.payment_method = "wallet"
    THEN [wallets EXCEPT ![r.l_wallet].balance =
            Flushed(@, r.l_balance, FloatSub(r.l_balance, r.total_amount))]
    ELSE wallets

\* the flushed debit kept although the unit of work failed
RolledBackWallets_DebitKept(r) == DebitedWallets(r)

\* the unit of work is rolled back when the flush raises (the session is
\* closed by get_db, book_seats calls db.rollback()): the debit flushed
\* before the INSERT is discarded
RolledBackWallets(r) == wallets

CreateBooking_Flush(p) ==
    /\ UNCHANGED sidevars
    /\ req[p].op = "create" /\ req[p].pc = "flush"
    /\ \E code \in GenerateBookingCode(6) :
         LET r == req[p] IN
         /\ BookingCodeFree(p, code)
         /\ r.payment_method = "wallet"
              /\ FloatSub(r.l_balance, r.total_amount) /= r.l_balance
              => WalletRowFree(p, r.l_wallet)
         /\ booking_id_seq' = booking_id_seq + 1
         /\ req' = [req EXCEPT ![p] =
               IF BookingCodeTaken(code)
               THEN Done("create", "integrity_error")
               ELSE [r EXCEPT !.booking_id = booking_id_seq + 1,
                              !.booking_code = code, !.pc = "commit"]]
         /\ wallets' = IF BookingCodeTaken(code)
                       THEN RolledBackWallets(r) ELSE wallets
    /\ UNCHANGED <<schedules, seats, transactions, bookings,
                   booking_passengers>>

\* the debit row of create_booking, its reference set after the flush
DebitTransaction(r) ==
    [wallet_id |-> r.l_wallet, type |-> "debit", amount |-> r.total_amount,
     reference_id |-> r.booking_id]

\* the debit row of book_seats: reference_id is never assigned and stays
\* NULL, written 0
AgentDebitTransaction(r) ==
    [wallet_id |-> r.l_wallet, type |-> "debit", amount |-> r.total_amount,
     reference_id |-> 0]

BookingRow(r, source) ==
    [booking_code |-> r.booking_code, user_id |-> r.user,
     bus_schedule_id |-> r.schedule_id, total_amount |-> r.total_amount,
     status |-> "confirmed", payment_method |-> r.payment_method,
     booking_source |-> source, cancelled_at |-> FALSE]

PassengerRows(r) ==
    [i \in 1..Len(r.seat_ids) |->
        [booking_id |-> r.booking_id, seat_id |-> r.seat_ids[i]]]

CreateBooking_Commit(p) ==
    /\ UNCHANGED sidevars
    /\ req[p].op = "create" /\ req[p].pc = "commit"
    /\ LET r == req[p] IN
       /\ wallets' = DebitedWallets(r)
       /\ transactions' = IF r.payment_method = "wallet"
                          THEN transactions (+) SetToBag({DebitTransaction(r)})
                          ELSE transactions
       /\ bookings' = bookings @@ (r.booking_id :> BookingRow(r, "app"))
       /\ booking_passengers' = booking_passengers \o PassengerRows(r)
       /\ seats' = [x \in DOMAIN seats |->
                      IF x \in Range(r.seat_ids)
                      THEN [seats[x] EXCEPT !.is_available = FALSE]
                      ELSE seats[x]]
       /\ schedules' = [schedules EXCEPT ![r.schedule_id].available_seats =
                          Flushed(@, r.l_available_seats,
                                  r.l_available_seats - Len(r.seat_ids))]
       /\ req' = [req EXCEPT ![p] = Done("create", "ok")]
    /\ UNCHANGED booking_id_seq


\* ------------------------------------------------ agent tool book_seats
\* the loop looking at the availability of the first seat only
SeatLoop_FirstOnly(seat_ids, schedule_id) ==
    IF seat_ids = <<>> THEN "ok"
    ELSE IF \E x \in Range(seat_ids) :
               ~(x \in DOMAIN seats /\ seats[x].bus_schedule_id = schedule_id)
    THEN "seat_not_found"
    ELSE IF ~seats[Head(seat_ids)].is_available
    THEN "seat_unavailable"
    ELSE "ok"

\* the loop over seat_ids: outcome of the first seat that fails, in list order
RECURSIVE SeatLoop(_, _)
SeatLoop(seat_ids, schedule_id) ==
    IF seat_ids = <<>> THEN "ok"
    ELSE LET x == Head(seat_ids) IN
         IF ~(x \in DOMAIN seats /\ seats[x].bus_schedule_id = schedule_id)
         THEN "seat_not_found"
         ELSE IF ~seats[x].is_available
         THEN "seat_unavailable"
         ELSE SeatLoop(Tail(seat_ids), schedule_id)

\* the tool from the schedule query to the end of the seat loop, for lists
\* that passed the argument checks: the request as it stands at the wallet
\* query, or its error
BookSeats_Started(user, schedule_id, seat_ids) ==
    IF schedule_id \notin DOMAIN schedules
    THEN Done("book", "schedule_not_found")
    ELSE IF SeatLoop(seat_ids, schedule_id) /= "ok"
    THEN Done("book", SeatLoop(seat_ids, schedule_id))
    ELSE [NoRequest EXCEPT
            !.op = "book", !.pc = "wallet", !.user = user,
            !.schedule_id = schedule_id, !.seat_ids = seat_ids,
            !.payment_method = "wallet",
            !.passenger_names = "list", !.passenger_genders = "list",
            !.l_available_seats = schedules[schedule_id].available_seats,
            !.total_amount =
                FloatSumFrom(0, [i \in 1..Len(seat_ids) |->
                                    seats[seat_ids[i]].price])]

\* a call whose four arguments are well-formed lists of one length
BookSeats_Begin(p, user, schedule_id, seat_ids) ==
    /\ UNCHANGED sidevars
    /\ req[p].pc = "done"
    /\ RoomForBooking
    /\ req' = [req EXCEPT ![p] = BookSeats_Started(user, schedule_id, seat_ids)]
    /\ UNCHANGED dbvars

\* json.loads on the argument texts of the calls: a list, a string, a
\* number, or JSONDecodeError for a text that is not JSON
JsonLoads(text) ==
    CASE text = "[]" -> [type |-> "list", items |-> <<>>]
      [] text = "[1]" -> [type |-> "list", items |-> <<1>>]
      [] text = "[1, 2]" -> [type |-> "list", items |-> <<1, 2>>]
      [] text = "[30]" -> [type |-> "list", items |-> <<30>>]
      [] text = "[30, 40]" -> [type |-> "list", items |-> <<30, 40>>]
      [] text = "[\"Ann\"]" -> [type |-> "list", items |-> <<"Ann">>]
      [] text = "[\"Ann\", \"Bob\"]" -> [type |-> "list", items |-> <<"Ann", "Bob">>]
      [] text = "[\"male\"]" -> [type |-> "list", items |-> <<"male">>]
      [] text = "[\"male\", \"female\"]" ->
             [type |-> "list", items |-> <<"male", "female">>]
      [] text = "\"Al\"" -> [type |-> "str", items |-> <<"A", "l">>]
      [] text = "7" -> [type |-> "int", items |-> <<>>]
      [] OTHER -> [type |-> "JSONDecodeError", items |-> <<>>]

\* len() is defined for lists and strings and raises TypeError otherwise
Sized(value) == value.type \in {"list", "str"}

PyLen(value) == Len(value.items)

\* the argument texts of the calls: lists of no entry and of two (one for
\* the genders), a text that is not JSON, a number and, for the names, a
\* string
SeatIdTexts == {"[]", "[1, 2]", "[1", "7"}
NameTexts == {"[]", "[\"Ann\", \"Bob\"]", "[\"Ann\"", "7", "\"Al\""}
AgeTexts == {"[]", "[30, 40]", "[30", "7"}
GenderTexts == {"[]", "[\"male\"]", "[\"male\"", "7"}

\* the agent calls the tool with four texts
BookSeats_Call(p, user, schedule_id, seat_ids_json, passenger_names_json, passenger_ages_json, passenger_genders_json) ==
    /\ UNCHANGED sidevars
    /\ req[p].pc = "done"
    /\ RoomForBooking
    /\ req' = [req EXCEPT ![p] =
          [NoRequest EXCEPT
             !.op = "book", !.pc = "parse", !.user = user,
             !.schedule_id = schedule_id,
             !.args = <<seat_ids_json, passenger_names_json,
                        passenger_ages_json, passenger_genders_json>>]]
    /\ UNCHANGED dbvars

\* book_seats from its first line: the four json.loads, the length check,
\* then the schedule query and the seat loop.  An exception anywhere in the
\* tool is caught, the unit of work rolled back and the error text returned.
BookSeats_Parse(p) ==
    /\ UNCHANGED sidevars
    /\ req[p].op = "book" /\ req[p].pc = "parse"
    /\ LET r == req[p]
           seat_ids == JsonLoads(r.args[1])
           passenger_names == JsonLoads(r.args[2])
           passenger_ages == JsonLoads(r.args[3])
           passenger_genders == JsonLoads(r.args[4])
           started == BookSeats_Started(r.user, r.schedule_id, seat_ids.items)
       IN  req' = [req EXCEPT ![p] =
             IF "JSONDecodeError" \in {seat_ids.type, passenger_names.type,
                                       passenger_ages.type, passenger_genders.type}
             THEN Done("book", "error_during_booking")
             ELSE IF ~Sized(seat_ids) \/ ~Sized(passenger_names)
             THEN Done("book", "error_during_booking")
             ELSE IF PyLen(seat_ids) /= PyLen(passenger_names)
             THEN Done("book", "length_mismatch")
             ELSE IF ~Sized(passenger_ages)
             THEN Done("book", "error_during_booking")
             ELSE IF PyLen(seat_ids) /= PyLen(passenger_ages)
             THEN Done("book", "length_mismatch")
             ELSE IF started.pc = "done" THEN started
             ELSE [started EXCEPT
                     !.args = r.args,
                     !.passenger_names = passenger_names.type,
                     !.passenger_genders = passenger_genders.type]]
    /\ UNCHANGED dbvars

BookSeats_Wallet(p) ==
    /\ UNCHANGED sidevars
    /\ req[p].op = "book" /\ req[p].pc = "wallet"
    /\ LET r == req[p]
           w == WalletIdOf(r.user)
       IN  req' = [req EXCEPT ![p] =
             IF w = 0
             THEN Done("book", "wallet_not_found")
             ELSE IF InsufficientBalance(wallets[w].balance, r.total_amount)
             THEN Done("book", "insufficient_balance")
             ELSE [r EXCEPT !.l_wallet = w, !.l_balance = wallets[w].balance,
                            !.pc = "flush"]]
    /\ UNCHANGED dbvars

BookSeats_Flush(p) ==
    /\ UNCHANGED sidevars
    /\ req[p].op = "book" /\ req[p].pc = "flush"
    /\ \E code \in GenerateBookingCode(8) :
         LET r == req[p] IN
         /\ BookingCodeFree(p, code)
         /\ FloatSub(r.l_balance, r.total_amount) /= r.l_balance
              => WalletRowFree(p, r.l_wallet)
         /\ booking_id_seq' = booking_id_seq + 1
         /\ req' = [req EXCEPT ![p] =
               IF BookingCodeTaken(code)
               THEN Done("book", "integrity_error")
               ELSE [r EXCEPT !.booking_id = booking_id_seq + 1,
                              !.booking_code = code, !.pc = "commit"]]
         /\ wallets' = IF BookingCodeTaken(code)
                       THEN RolledBackWallets(r) ELSE wallets
    /\ UNCHANGED <<schedules, seats, transactions, bookings,
                   booking_passengers>>

\* len(passenger_genders) in the passenger loop raises TypeError when the
\* genders argument is a number
GendersRaise(r) == r.passenger_genders = "int" /\ r.seat_ids /= <<>>

BookSeats_Commit(p) ==
    /\ UNCHANGED sidevars
    /\ req[p].op = "book" /\ req[p].pc = "commit"
    /\ LET r == req[p] IN
       IF GendersRaise(r)
       THEN /\ wallets' = RolledBackWallets(r)
            /\ req' = [req EXCEPT ![p] = Done("book", "error_during_booking")]
            /\ UNCHANGED <<schedules, seats, transactions, bookings,
                           booking_passengers>>
       ELSE /\ wallets' = DebitedWallets(r)
            /\ transactions' = transactions (+) SetToBag({AgentDebitTransaction(r)})
            /\ bookings' = bookings @@ (r.booking_id :> BookingRow(r, "agent"))
            /\ booking_passengers' = booking_passengers \o PassengerRows(r)
            /\ seats' = [x \in DOMAIN seats |->
                           IF x \in Range(r.seat_ids)
                           THEN [seats[x] EXCEPT !.is_available = FALSE]
                           ELSE seats[x]]
            /\ schedules' = [schedules EXCEPT ![r.schedule_id].available_seats =
                               Flushed(@, r.l_available_seats,
                                       r.l_available_seats - Len(r.seat_ids))]
            /\ req' = [req EXCEPT ![p] = Done("book", "ok")]
    /\ UNCHANGED booking_id_seq

\* ---------------------------------------- POST /bookings/{id}/cancel (HTTP)
\* seat ids of booking.passengers, in row order
RECURSIVE PassengerSeats(_, _)
PassengerSeats(rows, booking_id) ==
    IF rows = <<>> THEN <<>>
    ELSE (IF Head(rows).booking_id = booking_id
          THEN <<Head(rows).seat_id>> ELSE <<>>)
         \o PassengerSeats(Tail(rows), booking_id)

\* the query without its owner filter
OwnBooking_AnyOwner(user, booking_id) == booking_id \in DOMAIN bookings

\* Booking.id == booking_id AND Booking.user_id == current_user.id, .first()
\* is not None
OwnBooking(user, booking_id) ==
    /\ booking_id \in DOMAIN bookings
    /\ bookings[booking_id].user_id = user

\* GET /bookings/{id}
GetBooking(user, booking_id) ==
    IF OwnBooking(user, booking_id) THEN "ok" ELSE "booking_not_found"

\* GET /bookings/{id}/details
GetBookingDetails(user, booking_id) ==
    IF OwnBooking(user, booking_id) THEN "ok" ELSE "booking_not_found"

\* GET /bookings: ids of the rows with Booking.user_id == current_user.id
GetBookings(user) == {b \in DOMAIN bookings : bookings[b].user_id = user}

\* the completed check left out
CancelRefusal_CompletedAllowed(status) ==
    IF status = "cancelled" THEN "already_cancelled" ELSE "none"

\* the status checks of cancel_booking on a loaded booking
CancelRefusal(status) ==
    IF status = "cancelled" THEN "already_cancelled"
    ELSE IF status = "completed" THEN "completed_booking"
    ELSE "none"

CancelBooking_Begin(p, user, booking_id) ==
    /\ UNCHANGED sidevars
    /\ req[p].pc = "done"
    /\ req' = [req EXCEPT ![p] =
          IF ~OwnBooking(user, booking_id)
          THEN Done("cancel", "booking_not_found")
          ELSE IF CancelRefusal(bookings[booking_id].status) /= "none"
          THEN Done("cancel", CancelRefusal(bookings[booking_id].status))
          ELSE [NoRequest EXCEPT
                  !.op = "cancel", !.pc = "schedule", !.user = user,
                  !.booking_id = booking_id,
                  !.schedule_id = bookings[booking_id].bus_schedule_id,
                  !.seat_ids = PassengerSeats(booking_passengers, booking_id),
                  !.payment_method = bookings[booking_id].payment_method,
                  !.total_amount = bookings[booking_id].total_amount,
                  !.booking_code = bookings[booking_id].booking_code]]
    /\ UNCHANGED dbvars

CancelBooking_Schedule(p) ==
    /\ UNCHANGED sidevars
    /\ req[p].op = "cancel" /\ req[p].pc = "schedule"
    /\ req' = [req EXCEPT ![p].pc = "seats",
                          ![p].l_available_seats =
                              schedules[req[p].schedule_id].available_seats]
    /\ UNCHANGED dbvars

\* a refund whatever the payment method
RefundDue_Always(r) == TRUE

\* booking.payment_method == "wallet"
RefundDue(r) == r.payment_method = "wallet"

CancelBooking_Seats(p) ==
    /\ UNCHANGED sidevars
    /\ req[p].op = "cancel" /\ req[p].pc = "seats"
    /\ req' = [req EXCEPT
                 ![p].l_seat_flags =
                     [i \in 1..Len(req[p].seat_ids) |->
                         seats[req[p].seat_ids[i]].is_available],
                 ![p].pc = IF RefundDue(req[p]) THEN "wallet" ELSE "commit"]
    /\ UNCHANGED dbvars

CancelBooking_Wallet(p) ==
    /\ UNCHANGED sidevars
    /\ req[p].op = "cancel" /\ req[p].pc = "wallet"
    /\ LET w == WalletIdOf(req[p].user) IN
       req' = [req EXCEPT ![p].l_wallet = w,
                          ![p].l_balance = IF w = 0 THEN 0 ELSE wallets[w].balance,
                          ![p].pc = "commit"]
    /\ UNCHANGED dbvars

\* no seat handed back
ReleasedSeats_NoneReleased(r) == {}

\* seats the session marks dirty: loaded FALSE, assigned TRUE
ReleasedSeats(r) ==
    {r.seat_ids[i] : i \in {j \in 1..Len(r.seat_ids) : ~r.l_seat_flags[j]}}

\* the refund row without its booking reference
RefundTransaction_NoReference(r) ==
    [wallet_id |-> r.l_wallet, type |-> "credit", amount |-> r.total_amount,
     reference_id |-> 0]

RefundTransaction(r) ==
    [wallet_id |-> r.l_wallet, type |-> "credit", amount |-> r.total_amount,
     reference_id |-> r.booking_id]

\* the amount cleared along with the status
CancelledBooking_AmountCleared(row) ==
    [row EXCEPT !.status = "cancelled", !.cancelled_at = TRUE, !.total_amount = 0]

\* booking.status = "cancelled"; booking.cancelled_at = datetime.utcnow()
CancelledBooking(row) ==
    [row EXCEPT !.status = "cancelled", !.cancelled_at = TRUE]

CancelBooking_Commit(p) ==
    /\ UNCHANGED sidevars
    /\ req[p].op = "cancel" /\ req[p].pc = "commit"
    /\ LET r == req[p]
           refund == RefundDue(r) /\ r.l_wallet /= 0
       IN
       /\ refund => WalletRowFree(p, r.l_wallet)
       /\ bookings' = [bookings EXCEPT ![r.booking_id] = CancelledBooking(@)]
       /\ seats' = [x \in DOMAIN seats |->
                      IF x \in ReleasedSeats(r)
                      THEN [seats[x] EXCEPT !.is_available = TRUE]
                      ELSE seats[x]]
       /\ schedules' = [schedules EXCEPT ![r.schedule_id].available_seats =
                          Flushed(@, r.l_available_seats,
                                  r.l_available_seats + Len(r.seat_ids))]
       /\ wallets' = IF refund
                     THEN [wallets EXCEPT ![r.l_wallet].balance =
                             Flushed(@, r.l_balance,
                                     FloatAdd(r.l_balance, r.total_amount))]
                     ELSE wallets
       /\ transactions' = IF refund
                          THEN transactions (+) SetToBag({RefundTransaction(r)})
                          ELSE transactions
       /\ req' = [req EXCEPT ![p] = Done("cancel", "ok")]
    /\ UNCHANGED <<booking_passengers, booking_id_seq>>

\* --------------------------------------------------- POST /wallet/add (HTTP)
\* WalletAddMoney.amount: gt=0, le=100000
ValidAmount(amount) == amount > 0

AddMoney_Begin(p, user, amount) ==
    /\ UNCHANGED sidevars
    /\ req[p].pc = "done"
    /\ BagCardinality(transactions) + InFlight({"create", "book", "cancel", "add"})
          < MaxTransactions
    /\ (IF WalletIdOf(user) = 0 THEN 0 ELSE wallets[WalletIdOf(user)].balance)
          + amount <= MaxBalance
    /\ LET w == WalletIdOf(user) IN
       req' = [req EXCEPT ![p] =
          IF ~ValidAmount(amount)
          THEN Done("add", "validation_error")
          ELSE [NoRequest EXCEPT
                  !.op = "add", !.user = user, !.amount = amount,
                  !.l_wallet = w,
                  !.l_balance = IF w = 0 THEN 0 ELSE wallets[w].balance,
                  !.pc = IF w = 0 THEN "insert" ELSE "commit"]]
    /\ UNCHANGED dbvars

\* wallets.user_id is unique: an uncommitted INSERT for the same user makes
\* this INSERT wait, a committed one makes it fail
WalletInsertPending(q, user) ==
    req[q].op = "add" /\ req[q].pc = "commit" /\ req[q].l_wallet = 0
        /\ req[q].user = user

\* the unique constraint on wallets.user_id not enforced
UniqueUserViolated_NotEnforced(user) == FALSE

UniqueUserViolated(user) == WalletIdOf(user) /= 0

AddMoney_Insert(p) ==
    /\ UNCHANGED sidevars
    /\ req[p].op = "add" /\ req[p].pc = "insert"
    /\ \A q \in Procs \ {p} : ~WalletInsertPending(q, req[p].user)
    /\ req' = [req EXCEPT ![p] =
          IF UniqueUserViolated(req[p].user)
          THEN Done("add", "integrity_error")
          ELSE [req[p] EXCEPT !.pc = "commit"]]
    /\ UNCHANGED dbvars

\* the id the wallets sequence gives a new row: ids are opaque, the row of a
\* user's first wallet is numbered after the user
NewWalletId(user) ==
    IF user \notin DOMAIN wallets THEN user
    ELSE CHOOSE i \in 1..(2 * Cardinality(Users) + Cardinality(DOMAIN wallets)) :
            /\ i \notin DOMAIN wallets \cup Users
            /\ \A j \in 1..i : j \notin DOMAIN wallets \cup Users => j = i

CreditTransaction(wallet_id, amount) ==
    [wallet_id |-> wallet_id, type |-> "credit", amount |-> amount,
     reference_id |-> 0]

AddMoney_Commit(p) ==
    /\ UNCHANGED sidevars
    /\ req[p].op = "add" /\ req[p].pc = "commit"
    /\ LET r == req[p]
           w == IF r.l_wallet = 0 THEN NewWalletId(r.user) ELSE r.l_wallet
       IN
       /\ r.l_wallet /= 0 => WalletRowFree(p, r.l_wallet)
       /\ wallets' = IF r.l_wallet = 0
                     THEN wallets @@ (w :> [user_id |-> r.user,
                                            balance |-> FloatAdd(0, r.amount)])
                     ELSE [wallets EXCEPT ![w].balance =
                             Flushed(@, r.l_balance,
                                     FloatAdd(r.l_balance, r.amount))]
       /\ transactions' =
              transactions (+) SetToBag({CreditTransaction(w, r.amount)})
       /\ req' = [req EXCEPT ![p] = Done("add", "ok")]
    /\ UNCHANGED <<schedules, seats, bookings, booking_passengers,
                   booking_id_seq>>

\* --------------------------------------------------------- GET /wallet (HTTP)
GetWallet_Begin(p, user) ==
    /\ UNCHANGED sidevars
    /\ req[p].pc = "done"
    /\ req' = [req EXCEPT ![p] =
          IF WalletIdOf(user) /= 0
          THEN Done("wallet", "ok")
          ELSE [NoRequest EXCEPT !.op = "wallet", !.user = user, !.pc = "commit"]]
    /\ UNCHANGED dbvars

\* db.add(wallet); db.commit(): the INSERT is flushed by the commit
GetWallet_Commit(p) ==
    /\ UNCHANGED sidevars
    /\ req[p].op = "wallet" /\ req[p].pc = "commit"
    /\ \A q \in Procs \ {p} : ~WalletInsertPending(q, req[p].user)
    /\ IF UniqueUserViolated(req[p].user)
       THEN /\ req' = [req EXCEPT ![p] = Done("wallet", "integrity_error")]
            /\ UNCHANGED wallets
       ELSE /\ wallets' = wallets @@
                   (NewWalletId(req[p].user) :>
                       [user_id |-> req[p].user, balance |-> 0])
            /\ req' = [req EXCEPT ![p] = Done("wallet", "ok")]
    /\ UNCHANGED <<schedules, seats, transactions, bookings,
                   booking_passengers, booking_id_seq>>

\* ------------------------------------------------ agent tool search_buses
\* seed data: both schedules run on route 1 on day 1, schedule 2 departs
\* before schedule 1
ScheduleRoute(schedule_id) == IF schedule_id \in Schedules THEN 1 ELSE 0
TravelDate(schedule_id) == IF schedule_id \in Schedules THEN 1 ELSE 0
DepartureTime(schedule_id) == IF schedule_id = 1 THEN 2 ELSE 1

\* sold-out schedules listed as well
Bookable_SoldOutListed(row) == row.status = "scheduled"

\* BusSchedule.status == "scheduled", BusSchedule.available_seats > 0
Bookable(row) == row.status = "scheduled" /\ row.available_seats > 0

\* ORDER BY departure_time of a set of schedule ids
RECURSIVE OrderByDeparture(_)
OrderByDeparture(S) ==
    IF S = {} THEN <<>>
    ELSE LET first == CHOOSE s \in S :
                 \A t \in S : \/ DepartureTime(s) < DepartureTime(t)
                              \/ DepartureTime(s) = DepartureTime(t) /\ s <= t
         IN  <<first>> \o OrderByDeparture(S \ {first})

\* the schedule query of search_buses on a bus_schedules table
SearchBuses(schedule_table, route_ids, travel_date) ==
    OrderByDeparture({s \in DOMAIN schedule_table :
                         /\ ScheduleRoute(s) \in route_ids
                         /\ TravelDate(s) = travel_date
                         /\ Bookable(schedule_table[s])})

SearchBuses_Call(p, route_ids, travel_date) ==
    /\ UNCHANGED sidevars
    /\ req[p].pc = "done"
    /\ LET found == SearchBuses(schedules, route_ids, travel_date) IN
       req' = [req EXCEPT ![p] =
                 [NoRequest EXCEPT
                    !.op = "search",
                    !.result = IF found = <<>> THEN "no_buses" ELSE "ok",
                    !.found = found]]
    /\ UNCHANGED dbvars

\* ------------------------------------------- external trip-completion job
CompleteTrip(b) ==
    /\ UNCHANGED sidevars
    /\ b \in DOMAIN bookings
    /\ bookings[b].status = "confirmed"
    /\ \A q \in Procs : req[q].pc = "done"
    /\ bookings' = [bookings EXCEPT ![b].status = "completed"]
    /\ UNCHANGED <<schedules, seats, wallets, transactions,
                   booking_passengers, booking_id_seq, req>>

\* ------------------------------------------------------ /agent chat sessions
MaxChatSessions == 2
MaxChatMessages == 4

\* the session_id a request names: 0 for none, else a uuid, written as the
\* number of the row that carries it or a number no row carries yet
ChatSessionIds == 0..MaxChatSessions

ChatDone(op, result) == [NoChat EXCEPT !.op = op, !.result = result]

\* ChatSession rows with this session_id and user_id that are active:
\* row id, 0 for None
ActiveSessionOf(user, session_id) ==
    IF \E s \in DOMAIN chat_sessions :
          /\ chat_sessions[s].session_id = session_id
          /\ chat_sessions[s].user_id = user
          /\ chat_sessions[s].is_active
    THEN CHOOSE s \in DOMAIN chat_sessions :
            /\ chat_sessions[s].session_id = session_id
            /\ chat_sessions[s].user_id = user
            /\ chat_sessions[s].is_active
    ELSE 0

\* the session query of end_chat_session: no filter on is_active
SessionOf(user, session_id) ==
    IF \E s \in DOMAIN chat_sessions :
          /\ chat_sessions[s].session_id = session_id
          /\ chat_sessions[s].user_id = user
    THEN CHOOSE s \in DOMAIN chat_sessions :
            /\ chat_sessions[s].session_id = session_id
            /\ chat_sessions[s].user_id = user
    ELSE 0

ChatsInFlight == Cardinality({q \in Procs : chat[q].op = "chat" /\ chat[q].pc /= "done"})

\* room for the two messages of one more chat request
RoomForChat ==
    Len(chat_messages) + 2 * (ChatsInFlight + 1) <= MaxChatMessages

\* POST /agent/chat: get the session named, or create and commit a new one
ChatWithAgent_Begin(p, user, session_id) ==
    /\ chat[p].pc = "done"
    /\ RoomForChat
    /\ IF session_id /= 0
       THEN /\ chat' = [chat EXCEPT ![p] =
                 IF ActiveSessionOf(user, session_id) = 0
                 THEN ChatDone("chat", "session_not_found")
                 ELSE [NoChat EXCEPT
                         !.op = "chat", !.pc = "user_message", !.user = user,
                         !.session = ActiveSessionOf(user, session_id)]]
            /\ UNCHANGED chat_sessions
       ELSE /\ Len(chat_sessions) < MaxChatSessions
            /\ chat_sessions' = Append(chat_sessions,
                   [user_id |-> user, session_id |-> Len(chat_sessions) + 1,
                    is_active |-> TRUE])
            /\ chat' = [chat EXCEPT ![p] =
                   [NoChat EXCEPT
                      !.op = "chat", !.pc = "user_message", !.user = user,
                      !.session = Len(chat_sessions) + 1]]
    /\ UNCHANGED <<dbvars, req, hist, chat_messages, buses>>

\* the user message is added to the session that was loaded, and committed
ChatWithAgent_UserMessage(p) ==
    /\ chat[p].op = "chat" /\ chat[p].pc = "user_message"
    /\ chat_messages' = Append(chat_messages,
           [session_id |-> chat[p].session, role |-> "user"])
    /\ chat' = [chat EXCEPT ![p].pc = "reply"]
    /\ UNCHANGED <<dbvars, req, hist, chat_sessions, buses>>

\* the history is read, the agent answers, and the assistant message is
\* added to the session that was loaded, and committed
ChatWithAgent_Reply(p) ==
    /\ chat[p].op = "chat" /\ chat[p].pc = "reply"
    /\ chat_messages' = Append(chat_messages,
           [session_id |-> chat[p].session, role |-> "assistant"])
    /\ chat' = [chat EXCEPT ![p] = ChatDone("chat", "ok")]
    /\ UNCHANGED <<dbvars, req, hist, chat_sessions, buses>>

\* DELETE /agent/sessions/{session_id}: the row is loaded, is_active set to
\* False and ended_at to now, and committed
EndChatSession(p, user, session_id) ==
    /\ chat[p].pc = "done"
    /\ LET s == SessionOf(user, session_id) IN
       IF s = 0
       THEN /\ chat' = [chat EXCEPT ![p] = ChatDone("end", "session_not_found")]
            /\ UNCHANGED chat_sessions
       ELSE /\ chat_sessions' = [chat_sessions EXCEPT ![s].is_active = FALSE]
            /\ chat' = [chat EXCEPT ![p] = ChatDone("end", "ok")]
    /\ UNCHANGED <<dbvars, req, hist, chat_messages, buses>>

\* ------------------------------------------------- seed_data: schedules, seats
MaxTotalSeats == 12
MaxDays == 2

\* the buses the seeding is run on: type, layout text and total_seats
BusTypes == {"sleeper", "semi-sleeper", "seater"}
SeatLayouts == {"1+1", "2+1", "2+2", "3+2"}

\* layout.split("+") with int() of each part
LayoutParts(layout) ==
    CASE layout = "1+1" -> <<1, 1>>
      [] layout = "2+1" -> <<2, 1>>
      [] layout = "2+2" -> <<2, 2>>
      [] layout = "3+2" -> <<3, 2>>

RECURSIVE SumSeq(_)
SumSeq(parts) == IF parts = <<>> THEN 0 ELSE Head(parts) + SumSeq(Tail(parts))

\* "sleeper" in bus.bus_type.lower()
IsSleeper(bus_type) == bus_type \in {"sleeper", "semi-sleeper", "ac-sleeper"}

\* base_prices.get(bus.bus_type, 500), with the weekend surge int(p * 1.2)
BasePrice(bus_type, weekend) ==
    LET p == CASE bus_type = "sleeper" -> 800
               [] bus_type = "semi-sleeper" -> 600
               [] bus_type = "ac-sleeper" -> 1200
               [] bus_type = "seater" -> 400
               [] bus_type = "volvo-ac" -> 1000
               [] OTHER -> 500
    IN  IF weekend THEN (p * 12) \div 10 ELSE p

\* round(price, 2) in hundredths: base_price, times 1.1 for a window seat,
\* times 1.15 on the lower deck (the base prices are even, so the product is
\* a whole number of hundredths)
SeatPriceCents(base_price, seat_type, deck) ==
    LET windowed == IF seat_type = "window" THEN base_price * 110
                    ELSE base_price * 100
    IN  IF deck = "lower" THEN (windowed * 115) \div 100 ELSE windowed

RowLetters == <<"A", "B", "C", "D", "E", "F", "G", "H", "I", "J", "K", "L", "M", "N">>

\* the seat row built at one (deck, row, col) of the loops
SeedSeat(schedule_id, base_price, is_sleeper, deck, deck_rows, cols, row, col, seat_counter) ==
    LET seat_type == IF is_sleeper
                     THEN (IF deck = "lower" THEN "lower" ELSE "upper")
                     ELSE IF col = 1 \/ col = cols THEN "window" ELSE "aisle"
        prefix == IF is_sleeper
                  THEN (IF deck = "lower" THEN "L" ELSE "U")
                  ELSE RowLetters[row]
    IN  [bus_schedule_id |-> schedule_id,
         seat_number |-> <<prefix, seat_counter % 100>>,
         seat_type |-> seat_type,
         price |-> SeatPriceCents(base_price, seat_type, deck),
         is_available |-> TRUE,
         is_ladies_only |-> (row = deck_rows /\ col <= 2),
         row_number |-> row, column_number |-> col, deck |-> deck]

\* the three nested loops of create_seats from position k (decks, then rows,
\* then columns): a position is skipped once seat_counter exceeds total_seats
RECURSIVE SeedSeatsFrom(_, _, _, _, _, _, _, _)
SeedSeatsFrom(k, seat_counter, schedule_id, base_price, bus, decks, deck_rows, cols) ==
    IF k > Len(decks) * deck_rows * cols THEN <<>>
    ELSE LET d == ((k - 1) \div (deck_rows * cols)) + 1
             row == (((k - 1) % (deck_rows * cols)) \div cols) + 1
             col == ((k - 1) % cols) + 1
         IN  IF seat_counter > bus.total_seats
             THEN SeedSeatsFrom(k + 1, seat_counter, schedule_id, base_price,
                                bus, decks, deck_rows, cols)
             ELSE <<SeedSeat(schedule_id, base_price, IsSleeper(bus.bus_type),
                             decks[d], deck_rows, cols, row, col, seat_counter)>>
                  \o SeedSeatsFrom(k + 1, seat_counter + 1, schedule_id,
                                   base_price, bus, decks, deck_rows, cols)

\* create_seats(db, schedule, bus): the seat rows it adds, in order
CreateSeats(schedule_id, base_price, bus) ==
    LET cols == SumSeq(LayoutParts(bus.seat_layout))
        rows == bus.total_seats \div cols
        is_sleeper == IsSleeper(bus.bus_type)
        decks == IF is_sleeper THEN <<"lower", "upper">> ELSE <<"lower">>
        deck_rows == IF is_sleeper THEN rows \div 2 ELSE rows
    IN  SeedSeatsFrom(1, 1, schedule_id, base_price, bus, decks, deck_rows, cols)

\* one turn of the loops of create_schedules: the schedule of a bus for the
\* next day not yet done, unless the bus has one on that date, and its seats
CreateSchedules_Step(bus_id, weekend) ==
    /\ bus_id \in DOMAIN buses
    /\ Len(schedules) < MaxDays
    /\ LET travel_date == Len(schedules)
           schedule_id == Len(schedules) + 1
           bus == buses[bus_id]
           base_price == BasePrice(bus.bus_type, weekend)
           existing == \E s \in DOMAIN schedules :
                          /\ schedules[s].bus_id = bus_id
                          /\ schedules[s].travel_date = travel_date
       IN  /\ ~existing
           /\ schedules' = Append(schedules,
                  [bus_id |-> bus_id, travel_date |-> travel_date,
                   base_price |-> base_price,
                   available_seats |-> bus.total_seats,
                   status |-> "scheduled"])
           /\ seats' = seats \o CreateSeats(schedule_id, base_price, bus)
    /\ UNCHANGED <<wallets, transactions, bookings, booking_passengers,
                   booking_id_seq, req, hist, sidevars>>

\* ---------------------------------------------- requests run one at a time
Idle == \A q \in Procs : req[q].pc = "done"

\* what the observer keeps: the tables as they were when the running request
\* began and, after a wallet-paid booking, the tables before that booking
\* until the next request is anything but the cancellation of that booking
Observe(p) ==
    LET began == req[p].pc = "done"
        ended == req'[p].pc = "done"
        pre == IF began THEN Database ELSE hist.pre
        booked == /\ ended /\ ~began
                  /\ req[p].op \in {"create", "book"}
                  /\ req[p].payment_method = "wallet"
                  /\ req'[p].result = "ok"
        cancels == /\ ~ended
                   /\ req'[p].op = "cancel"
                   /\ req'[p].booking_id = hist.rt_booking
        keep == IF began THEN cancels ELSE ~ended
    IN  hist' = [pre |-> IF ended THEN Database' ELSE pre,
                 rt_booking |-> IF booked THEN req[p].booking_id
                                ELSE IF keep THEN hist.rt_booking ELSE 0,
                 rt_pre |-> IF booked THEN pre
                            ELSE IF keep /\ hist.rt_booking /= 0 THEN hist.rt_pre
                            ELSE Database']

\* one worker process serves the requests one after the other
Next ==
    \/ \E user \in Bookers, schedule_id \in ScheduleIds,
          seat_ids \in SeatLists, payment_method \in PaymentMethods :
          /\ Idle
          /\ CreateBooking_Begin(1, user, schedule_id, seat_ids, payment_method)
          /\ Observe(1)
    \/ CreateBooking_Seats(1) /\ Observe(1)
    \/ CreateBooking_Wallet(1) /\ Observe(1)
    \/ CreateBooking_Flush(1) /\ Observe(1)
    \/ CreateBooking_Commit(1) /\ Observe(1)
    \/ \E user \in Bookers, schedule_id \in ScheduleIds, seat_ids \in SeatLists :
          /\ Idle
          /\ BookSeats_Begin(1, user, schedule_id, seat_ids)
          /\ Observe(1)
    \/ BookSeats_Wallet(1) /\ Observe(1)
    \/ BookSeats_Flush(1) /\ Observe(1)
    \/ BookSeats_Commit(1) /\ Observe(1)
    \/ \E user \in Users, booking_id \in 1..MaxBookings :
          /\ Idle
          /\ RoomForTransaction
          /\ CancelBooking_Begin(1, user, booking_id)
          /\ Observe(1)
    \/ CancelBooking_Schedule(1) /\ Observe(1)
    \/ CancelBooking_Seats(1) /\ Observe(1)
    \/ CancelBooking_Wallet(1) /\ Observe(1)
    \/ CancelBooking_Commit(1) /\ Observe(1)
    \/ \E user \in Bookers, amount \in AddAmounts :
          /\ Idle
          /\ AddMoney_Begin(1, user, amount)
          /\ Observe(1)
    \/ AddMoney_Insert(1) /\ Observe(1)
    \/ AddMoney_Commit(1) /\ Observe(1)
    \/ \E b \in 1..MaxBookings :
          /\ CompleteTrip(b)
          /\ hist' = [pre |-> Database', rt_booking |-> 0, rt_pre |-> Database']

Spec == Init /\ [][Next]_vars

\* ------------------------------------------------ requests run concurrently
\* two worker processes serve requests for the bookable schedule at once
NextConc ==
    \/ \E p \in Procs, user \in Users, seat_ids \in ConcSeatLists :
          CreateBooking_Begin(p, user, 1, seat_ids, "wallet") /\ UNCHANGED hist
    \/ \E p \in Procs : CreateBooking_Seats(p) /\ UNCHANGED hist
    \/ \E p \in Procs : CreateBooking_Wallet(p) /\ UNCHANGED hist
    \/ \E p \in Procs : CreateBooking_Flush(p) /\ UNCHANGED hist
    \/ \E p \in Procs : CreateBooking_Commit(p) /\ UNCHANGED hist
    \/ \E p \in Procs, user \in Users, seat_ids \in ConcSeatLists :
          BookSeats_Begin(p, user, 1, seat_ids) /\ UNCHANGED hist
    \/ \E p \in Procs : BookSeats_Wallet(p) /\ UNCHANGED hist
    \/ \E p \in Procs : BookSeats_Flush(p) /\ UNCHANGED hist
    \/ \E p \in Procs : BookSeats_Commit(p) /\ UNCHANGED hist
    \/ \E p \in Procs, user \in Users, booking_id \in 1..MaxBookings :
          /\ RoomForTransaction
          /\ CancelBooking_Begin(p, user, booking_id)
          /\ UNCHANGED hist
    \/ \E p \in Procs : CancelBooking_Schedule(p) /\ UNCHANGED hist
    \/ \E p \in Procs : CancelBooking_Seats(p) /\ UNCHANGED hist
    \/ \E p \in Procs : CancelBooking_Wallet(p) /\ UNCHANGED hist
    \/ \E p \in Procs : CancelBooking_Commit(p) /\ UNCHANGED hist
    \/ \E p \in Procs, user \in Users, amount \in AddAmounts :
          AddMoney_Begin(p, user, amount) /\ UNCHANGED hist
    \/ \E p \in Procs : AddMoney_Insert(p) /\ UNCHANGED hist
    \/ \E p \in Procs : AddMoney_Commit(p) /\ UNCHANGED hist

SpecConc == Init /\ [][NextConc]_vars

\* ----------------------------------------- cancellations run concurrently
\* one user tops up and books through one worker process, one request at a
\* time; cancellations of that user's bookings arrive at both processes
NextCancel ==
    \/ \E amount \in AddAmounts :
          /\ Idle
          /\ AddMoney_Begin(1, 1, amount)
          /\ UNCHANGED hist
    \/ AddMoney_Insert(1) /\ UNCHANGED hist
    \/ AddMoney_Commit(1) /\ UNCHANGED hist
    \/ \E seat_ids \in ConcSeatLists, payment_method \in PaymentMethods :
          /\ Idle
          /\ CreateBooking_Begin(1, 1, 1, seat_ids, payment_method)
          /\ UNCHANGED hist
    \/ CreateBooking_Seats(1) /\ UNCHANGED hist
    \/ CreateBooking_Wallet(1) /\ UNCHANGED hist
    \/ CreateBooking_Flush(1) /\ UNCHANGED hist
    \/ CreateBooking_Commit(1) /\ UNCHANGED hist
    \/ \E p \in Procs, booking_id \in 1..MaxBookings :
          /\ req[1].op \notin {"create", "add"} \/ req[1].pc = "done"
          /\ CancelBooking_Begin(p, 1, booking_id)
          /\ UNCHANGED hist
    \/ \E p \in Procs : CancelBooking_Schedule(p) /\ UNCHANGED hist
    \/ \E p \in Procs : CancelBooking_Seats(p) /\ UNCHANGED hist
    \/ \E p \in Procs : CancelBooking_Wallet(p) /\ UNCHANGED hist
    \/ \E p \in Procs : CancelBooking_Commit(p) /\ UNCHANGED hist

SpecCancel == Init /\ [][NextCancel]_vars


\* ------------------------------------------- wallet requests run concurrently
\* two worker processes serve GET /wallet and POST /wallet/add of both users
NextWallet ==
    \/ \E p \in Procs, user \in Users :
          GetWallet_Begin(p, user) /\ UNCHANGED hist
    \/ \E p \in Procs : GetWallet_Commit(p) /\ UNCHANGED hist
    \/ \E p \in Procs, user \in Users, amount \in AddAmounts :
          AddMoney_Begin(p, user, amount) /\ UNCHANGED hist
    \/ \E p \in Procs : AddMoney_Insert(p) /\ UNCHANGED hist
    \/ \E p \in Procs : AddMoney_Commit(p) /\ UNCHANGED hist

SpecWallet == Init /\ [][NextWallet]_vars

\* --------------------------------------- wallet requests run one at a time
\* amounts of POST /wallet/add requests: below zero, zero, and two amounts
\* whose sum has no representation
WalletAmounts == {-1, 0, 2, 3}

\* one worker process serves GET /wallet and POST /wallet/add of both users
NextAdd ==
    \/ \E user \in Users :
          /\ Idle
          /\ GetWallet_Begin(1, user)
          /\ Observe(1)
    \/ GetWallet_Commit(1) /\ Observe(1)
    \/ \E user \in Users, amount \in WalletAmounts :
          /\ Idle
          /\ AddMoney_Begin(1, user, amount)
          /\ Observe(1)
    \/ AddMoney_Insert(1) /\ Observe(1)
    \/ AddMoney_Commit(1) /\ Observe(1)

SpecAdd == Init /\ [][NextAdd]_vars

\* ------------------------------------------- calls with arbitrary arguments
\* passenger lists of POST /bookings: none, one
OpenSeatLists == {<<>>, <<1>>}

\* one worker process serves one user's top-ups, the calls of book_seats with
\* every combination of argument texts, and POST /bookings with passenger
\* lists that may be empty
NextTool ==
    \/ \E amount \in AddAmounts :
          /\ Idle
          /\ AddMoney_Begin(1, 1, amount)
          /\ Observe(1)
    \/ AddMoney_Insert(1) /\ Observe(1)
    \/ AddMoney_Commit(1) /\ Observe(1)
    \/ \E schedule_id \in {1, 3}, seat_ids_json \in SeatIdTexts,
          passenger_names_json \in NameTexts, passenger_ages_json \in AgeTexts,
          passenger_genders_json \in GenderTexts :
          /\ Idle
          /\ BookSeats_Call(1, 1, schedule_id, seat_ids_json,
                            passenger_names_json, passenger_ages_json,
                            passenger_genders_json)
          /\ Observe(1)
    \/ BookSeats_Parse(1) /\ Observe(1)
    \/ BookSeats_Wallet(1) /\ Observe(1)
    \/ BookSeats_Flush(1) /\ Observe(1)
    \/ BookSeats_Commit(1) /\ Observe(1)
    \/ \E seat_ids \in OpenSeatLists, payment_method \in PaymentMethods :
          /\ Idle
          /\ CreateBooking_Begin(1, 1, 1, seat_ids, payment_method)
          /\ Observe(1)
    \/ CreateBooking_Seats(1) /\ Observe(1)
    \/ CreateBooking_Wallet(1) /\ Observe(1)
    \/ CreateBooking_Flush(1) /\ Observe(1)
    \/ CreateBooking_Commit(1) /\ Observe(1)

SpecTool == Init /\ [][NextTool]_vars

\* ------------------------------------------- two users served one at a time
\* seat lists of the requests of two users
FrameSeatLists == {<<1>>, <<3>>, <<1, 2>>}

\* one worker process serves the top-ups, bookings through both front ends
\* and cancellations of two users, one request after the other
NextFrame ==
    \/ \E user \in Users, amount \in AddAmounts :
          /\ Idle
          /\ AddMoney_Begin(1, user, amount)
          /\ Observe(1)
    \/ AddMoney_Insert(1) /\ Observe(1)
    \/ AddMoney_Commit(1) /\ Observe(1)
    \/ \E user \in Users, schedule_id \in Schedules,
          seat_ids \in FrameSeatLists, payment_method \in PaymentMethods :
          /\ Idle
          /\ CreateBooking_Begin(1, user, schedule_id, seat_ids, payment_method)
          /\ Observe(1)
    \/ CreateBooking_Seats(1) /\ Observe(1)
    \/ CreateBooking_Wallet(1) /\ Observe(1)
    \/ CreateBooking_Flush(1) /\ Observe(1)
    \/ CreateBooking_Commit(1) /\ Observe(1)
    \/ \E user \in Users, schedule_id \in Schedules, seat_ids \in FrameSeatLists :
          /\ Idle
          /\ BookSeats_Begin(1, user, schedule_id, seat_ids)
          /\ Observe(1)
    \/ BookSeats_Wallet(1) /\ Observe(1)
    \/ BookSeats_Flush(1) /\ Observe(1)
    \/ BookSeats_Commit(1) /\ Observe(1)
    \/ \E user \in Users, booking_id \in 1..MaxBookings :
          /\ Idle
          /\ RoomForTransaction
          /\ CancelBooking_Begin(1, user, booking_id)
          /\ Observe(1)
    \/ CancelBooking_Schedule(1) /\ Observe(1)
    \/ CancelBooking_Seats(1) /\ Observe(1)
    \/ CancelBooking_Wallet(1) /\ Observe(1)
    \/ CancelBooking_Commit(1) /\ Observe(1)

SpecFrame == Init /\ [][NextFrame]_vars

\* ----------------------------------------- POST /bookings between top-ups
\* one worker process serves one user's top-ups and requests of
\* POST /bookings, one after the other
NextCreate ==
    \/ \E amount \in AddAmounts :
          /\ Idle
          /\ AddMoney_Begin(1, 1, amount)
          /\ Observe(1)
    \/ AddMoney_Insert(1) /\ Observe(1)
    \/ AddMoney_Commit(1) /\ Observe(1)
    \/ \E user \in Bookers, schedule_id \in ScheduleIds,
          seat_ids \in SeatLists, payment_method \in PaymentMethods :
          /\ Idle
          /\ CreateBooking_Begin(1, user, schedule_id, seat_ids, payment_method)
          /\ Observe(1)
    \/ CreateBooking_Seats(1) /\ Observe(1)
    \/ CreateBooking_Wallet(1) /\ Observe(1)
    \/ CreateBooking_Flush(1) /\ Observe(1)
    \/ CreateBooking_Commit(1) /\ Observe(1)

SpecCreate == Init /\ [][NextCreate]_vars

\* ------------------------------------------------ chat requests of two users
\* two worker processes serve the chat requests and the session endings
NextChat ==
    \/ \E p \in Procs, user \in Users, session_id \in ChatSessionIds :
          ChatWithAgent_Begin(p, user, session_id)
    \/ \E p \in Procs : ChatWithAgent_UserMessage(p)
    \/ \E p \in Procs : ChatWithAgent_Reply(p)
    \/ \E p \in Procs, user \in Users, session_id \in ChatSessionIds \ {0} :
          EndChatSession(p, user, session_id)

SpecChat == Init /\ [][NextChat]_vars

\* ------------------------------------------------------- seeding of one bus
\* the tables before create_schedules: one bus of any type, layout and
\* total_seats, no schedule and no seat
InitSeed ==
    /\ buses \in [{1} -> [bus_type : BusTypes, seat_layout : SeatLayouts,
                          total_seats : 0..MaxTotalSeats]]
    /\ schedules = <<>>
    /\ seats = <<>>
    /\ wallets = <<>>
    /\ transactions = EmptyBag
    /\ bookings = <<>>
    /\ booking_passengers = <<>>
    /\ booking_id_seq = 0
    /\ req = [p \in Procs |-> NoRequest]
    /\ hist = [pre |-> <<>>, rt_booking |-> 0, rt_pre |-> <<>>]
    /\ chat_sessions = <<>>
    /\ chat_messages = <<>>
    /\ chat = [p \in Procs |-> NoChat]

NextSeed ==
    \E bus_id \in {1}, weekend \in BOOLEAN : CreateSchedules_Step(bus_id, weekend)

SpecSeed == InitSeed /\ [][NextSeed]_vars

\* ------------------------------------------------- searches between bookings
\* route sets and dates of the searches; passenger lists of the bookings
RouteSets == {{1}, {2}, {1, 2}}
TravelDates == {1, 2}
SearchSeatLists == {<<1>>, <<3>>, <<1, 2>>}

\* the seeded tables with each schedule either open or called off
InitSearch ==
    /\ schedules \in [Schedules -> [status : {"scheduled", "cancelled"},
                                    available_seats : 0..Cardinality(SeatIds)]]
    /\ \A s \in Schedules :
          schedules[s].available_seats =
              Cardinality({x \in SeatIds : SeatSchedule(x) = s})
    /\ seats = [x \in SeatIds |->
                  [bus_schedule_id |-> SeatSchedule(x), price |-> SeatPrice(x),
                   is_available |-> TRUE]]
    /\ wallets = <<>>
    /\ transactions = EmptyBag
    /\ bookings = <<>>
    /\ booking_passengers = <<>>
    /\ booking_id_seq = 0
    /\ req = [p \in Procs |-> NoRequest]
    /\ hist = [pre |-> Database, rt_booking |-> 0, rt_pre |-> Database]
    /\ chat_sessions = <<>>
    /\ chat_messages = <<>>
    /\ chat = [p \in Procs |-> NoChat]
    /\ buses = <<>>

\* one worker process serves searches, card-paid bookings and cancellations
\* of one user
NextSearch ==
    \/ \E route_ids \in RouteSets, travel_date \in TravelDates :
          /\ Idle
          /\ SearchBuses_Call(1, route_ids, travel_date)
          /\ Observe(1)
    \/ \E schedule_id \in Schedules, seat_ids \in SearchSeatLists :
          /\ Idle
          /\ CreateBooking_Begin(1, 1, schedule_id, seat_ids, "card")
          /\ Observe(1)
    \/ CreateBooking_Seats(1) /\ Observe(1)
    \/ CreateBooking_Flush(1) /\ Observe(1)
    \/ CreateBooking_Commit(1) /\ Observe(1)
    \/ \E booking_id \in 1..MaxBookings :
          /\ Idle
          /\ CancelBooking_Begin(1, 1, booking_id)
          /\ Observe(1)
    \/ CancelBooking_Schedule(1) /\ Observe(1)
    \/ CancelBooking_Seats(1) /\ Observe(1)
    \/ CancelBooking_Commit(1) /\ Observe(1)

SpecSearch == InitSearch /\ [][NextSearch]_vars

\* ======================================================================
\* Properties
\* ======================================================================
\* confirmed bookings that have a passenger row on seat x
ConfirmedHolders(x) ==
    {b \in DOMAIN bookings :
        /\ bookings[b].status = "confirmed"
        /\ \E i \in DOMAIN booking_passengers :
              /\ booking_passengers[i].booking_id = b
              /\ booking_passengers[i].seat_id = x}

\* exact sum of the amounts of the transactions of one wallet and type
RECURSIVE AmountSum(_, _)
AmountSum(rows, log) ==
    IF rows = {} THEN 0
    ELSE LET t == CHOOSE x \in rows : TRUE
         IN  t.amount * CopiesIn(t, log) + AmountSum(rows \ {t}, log)

TransactionSum(log, w, type) ==
    AmountSum({t \in BagToSet(log) : t.wallet_id = w /\ t.type = type}, log)

BookingStep(p) ==
    /\ req[p].op \in {"create", "book"}
    /\ req[p].pc = "commit"
    /\ req'[p].pc = "done"

CancelStep(p) ==
    /\ req[p].op = "cancel"
    /\ req[p].pc = "commit"
    /\ req'[p].pc = "done"

\* C1: a seat is never held by two confirmed bookings, whatever the
\* interleaving of two booking requests for it.
C1_SeatHeldOnce ==
    \A x \in DOMAIN seats : Cardinality(ConfirmedHolders(x)) <= 1

\* C2: every schedule's available_seats counter equals the number of its
\* seats whose is_available flag is true.
C2_CounterMatchesFlags ==
    \A s \in DOMAIN schedules :
        schedules[s].available_seats =
            Cardinality({x \in DOMAIN seats :
                            seats[x].bus_schedule_id = s /\ seats[x].is_available})

\* C3: the balance of every wallet equals the sum of its credit transactions
\* minus the sum of its debit transactions.
C3_BalanceIsCreditsMinusDebits ==
    \A w \in DOMAIN wallets :
        wallets[w].balance =
            TransactionSum(transactions, w, "credit")
                - TransactionSum(transactions, w, "debit")

\* C4: a wallet-paid booking commits only when the committed balance of the
\* wallet covers its total, so of two concurrent bookings that the balance
\* cannot both pay, at most one commits.
C4_NoDoubleSpend ==
    [][\A p \in Procs :
          BookingStep(p) /\ req[p].payment_method = "wallet"
              /\ req'[p].result = "ok"
          => wallets[req[p].l_wallet].balance >= req[p].total_amount]_vars

\* C5: the stored balance of every wallet is never negative.
C5_BalanceNonNegative ==
    \A w \in DOMAIN wallets : wallets[w].balance >= 0

\* two bookings were paid out of a balance that covered only one of them
C5_Witness ==
    \E w \in DOMAIN wallets :
        /\ TransactionSum(transactions, w, "debit")
              > TransactionSum(transactions, w, "credit")

\* the sum of the prices of the seats of a request, as a decimal amount
RECURSIVE PriceSum(_, _)
PriceSum(seat_ids, seat_table) ==
    IF seat_ids = <<>> THEN 0
    ELSE seat_table[Head(seat_ids)].price + PriceSum(Tail(seat_ids), seat_table)

\* what a successful wallet-paid booking of distinct seats, run alone, commits,
\* the debit being `debited` and the booking's amount `total`
BookingEffect(p, debited, total) ==
    LET r == req[p]
        old == hist.pre
        b == r.booking_id
    IN  /\ \A w \in DOMAIN old.wallets :
               old.wallets[w].user_id = r.user
               => wallets'[w].balance = debited
        /\ b \in DOMAIN bookings' /\ b \notin DOMAIN old.bookings
        /\ bookings'[b].status = "confirmed"
        /\ bookings'[b].total_amount = total
        /\ \A x \in DOMAIN seats :
               Cardinality({i \in DOMAIN booking_passengers' :
                   /\ booking_passengers'[i].booking_id = b
                   /\ booking_passengers'[i].seat_id = x})
                 = IF x \in Range(r.seat_ids) THEN 1 ELSE 0
        /\ \A x \in Range(r.seat_ids) :
               old.seats[x].is_available /\ ~seats'[x].is_available
        /\ schedules'[r.schedule_id].available_seats =
               old.schedules[r.schedule_id].available_seats - Len(r.seat_ids)

\* the bookings the effect is stated for
DistinctWalletBooking(p) ==
    /\ BookingStep(p) /\ req'[p].result = "ok"
    /\ req[p].payment_method = "wallet"
    /\ IsDistinct(req[p].seat_ids)
    /\ hist.pre.schedules[req[p].schedule_id].status = "scheduled"

\* C6: a successful wallet-paid booking of distinct available seats of a
\* scheduled schedule, run alone, leaves the balance at the old balance minus
\* the sum of the seats' prices, creates a confirmed booking of that sum with
\* one passenger row per seat, flips every requested seat and lowers the
\* counter by their number.
C6_BookingEffect ==
    [][\A p \in Procs :
          DistinctWalletBooking(p)
          => LET old == hist.pre
                 total == PriceSum(req[p].seat_ids, old.seats)
             IN  BookingEffect(p,
                     old.wallets[WalletIdOf(req[p].user)].balance - total,
                     total)]_vars

\* the same effect with the debit and the total as the Float columns compute
\* them: everything but the decimal value of the balance is as C6 states
BookingEffect_Float ==
    [][\A p \in Procs :
          DistinctWalletBooking(p)
          => LET old == hist.pre
                 total == FloatSumFrom(0, [i \in 1..Len(req[p].seat_ids) |->
                              old.seats[req[p].seat_ids[i]].price])
             IN  BookingEffect(p,
                     FloatSub(old.wallets[WalletIdOf(req[p].user)].balance, total),
                     total)]_vars

C8_RoundTrip ==
    [][\A p \in Procs :
          CancelStep(p) /\ req'[p].result = "ok"
              /\ hist.rt_booking /= 0 /\ hist.rt_booking = req[p].booking_id
          => LET old == hist.rt_pre
                 w == WalletIdOf(req[p].user)
             IN  /\ \A x \in DOMAIN seats :
                       seats'[x].is_available = old.seats[x].is_available
                 /\ \A s \in DOMAIN schedules :
                       schedules'[s].available_seats =
                           old.schedules[s].available_seats
                 /\ wallets'[w].balance = old.wallets[w].balance]_vars

\* C9: a successful cancellation of a confirmed wallet-paid booking sets it
\* cancelled, stamps cancelled_at and adds exactly one credit transaction,
\* of the booking's total_amount and referencing the booking.
C9_CancelEffect ==
    [][\A p \in Procs :
          CancelStep(p) /\ req'[p].result = "ok"
              /\ hist.pre.bookings[req[p].booking_id].payment_method = "wallet"
          => LET b == req[p].booking_id
                 old == hist.pre
                 w == CHOOSE i \in DOMAIN old.wallets :
                         old.wallets[i].user_id = old.bookings[b].user_id
             IN  /\ old.bookings[b].status = "confirmed"
                 /\ bookings'[b].status = "cancelled"
                 /\ bookings'[b].cancelled_at
                 /\ transactions' = old.transactions (+) SetToBag({
                        [wallet_id |-> w, type |-> "credit",
                         amount |-> old.bookings[b].total_amount,
                         reference_id |-> b]})]_vars

\* the last request cancelled a wallet-paid booking
C9_Witness ==
    /\ req[1] = Done("cancel", "ok")
    /\ \E b \in DOMAIN bookings :
          /\ bookings[b].status = "cancelled"
          /\ bookings[b].payment_method = "wallet"
          /\ bookings[b].total_amount > 0
          /\ \E t \in BagToSet(transactions) :
                t.type = "credit" /\ t.reference_id = b

\* C10: a request changes a booking's status only from confirmed to
\* cancelled, a cancelled or completed booking keeps its status, and
\* cancel_booking on such a booking fails with the invalid-state error and
\* changes no table.
C10_TerminalStatus ==
    [][/\ \A b \in DOMAIN bookings :
             bookings'[b].status /= bookings[b].status
             => /\ bookings[b].status = "confirmed"
                /\ bookings'[b].status = "cancelled"
                      \/ (bookings'[b].status = "completed" /\ req' = req)
       /\ \A user \in Users, b \in DOMAIN bookings :
             /\ CancelBooking_Begin(1, user, b)
             /\ bookings[b].user_id = user
             /\ bookings[b].status \in {"cancelled", "completed"}
             => /\ req'[1].pc = "done"
                /\ req'[1].result \in {"already_cancelled", "completed_booking"}
                /\ Database' = Database]_vars

\* the owner's cancellation of a completed booking was refused while
\* another booking is cancelled
C10_Witness ==
    /\ req[1] = Done("cancel", "completed_booking")
    /\ \E b \in DOMAIN bookings : bookings[b].status = "cancelled"

\* credit transactions that refer to booking b
RefundCount(b) ==
    LET rows == {t \in BagToSet(transactions) :
                    t.type = "credit" /\ t.reference_id = b}
    IN  IF rows = {} THEN 0
        ELSE LET t == CHOOSE x \in rows : TRUE IN CopiesIn(t, transactions)

\* C11: of two concurrent cancellations of one confirmed wallet-paid booking
\* exactly one succeeds: no booking is ever refunded by more than one credit
\* transaction.
C11_RefundedOnce ==
    \A b \in DOMAIN bookings : RefundCount(b) <= 1

\* some seat named by the list is taken in the seat table
NamesTakenSeat(seat_ids, seat_table) ==
    \E x \in Range(seat_ids) :
        x \in DOMAIN seat_table /\ ~seat_table[x].is_available

\* C12: a booking request that names at least one unavailable seat fails,
\* through either front end, and leaves every table as it was: no seat
\* flipped, counter, wallet and log untouched, no booking or passenger row.
C12_AllOrNothing ==
    [][/\ \A p \in Procs :
             /\ req[p].op \in {"create", "book"}
             /\ req[p].pc /= "done"
             /\ req'[p] /= req[p]
             /\ NamesTakenSeat(req[p].seat_ids, hist.pre.seats)
             => /\ req'[p].pc = "done"
                /\ req'[p].result \in {"seat_not_found", "seat_unavailable"}
                /\ Database' = hist.pre
       /\ \A user \in Bookers, schedule_id \in ScheduleIds, seat_ids \in SeatLists :
             /\ req[1].pc = "done" /\ req'[1].op = "book"
             /\ NamesTakenSeat(seat_ids, seats)
             /\ BookSeats_Begin(1, user, schedule_id, seat_ids)
             => /\ req'[1].pc = "done"
                /\ req'[1].result \in
                      {"schedule_not_found", "seat_not_found", "seat_unavailable"}
                /\ Database' = Database]_vars

\* a booking was refused for an unavailable seat while another seat of the
\* same schedule was free
C12_Witness ==
    /\ req[1].op \in {"create", "book"}
    /\ req[1].result = "seat_unavailable"
    /\ \E x, y \in DOMAIN seats :
          /\ seats[x].bus_schedule_id = 1 /\ seats[y].bus_schedule_id = 1
          /\ ~seats[x].is_available /\ seats[y].is_available

\* C13: a wallet-paid booking request that fails at the flush of the booking
\* INSERT, after the debit was applied in its unit of work, commits nothing:
\* wallets, transaction log, bookings, passengers, seat flags and counters
\* are as they were before the call.
C13_FailedBookingCommitsNothing ==
    [][\A p \in Procs :
          /\ req[p].op \in {"create", "book"}
          /\ req[p].pc = "flush"
          /\ req[p].payment_method = "wallet"
          /\ req'[p].pc = "done"
          => /\ req'[p].result = "integrity_error"
             /\ Database' = hist.pre]_vars

\* an agent booking, always paid from the wallet, failed on the code
\* constraint while the wallet held money
C13_Witness ==
    /\ req[1] = Done("book", "integrity_error")
    /\ \E w \in DOMAIN wallets : wallets[w].balance > 0

\* C14: a booking request whose generated code collides with the code of an
\* existing booking regenerates the code and completes; no booking request
\* ever fails on the uniqueness of booking_code.
C14_CollisionNeverFails ==
    \A p \in Procs :
        req[p].op \in {"create", "book"} => req[p].result /= "integrity_error"

\* C15: no booking exists, and no seat is taken, on a schedule whose status
\* is not scheduled, whichever front end the requests came through.
C15_OnlyScheduledBooked ==
    /\ \A b \in DOMAIN bookings :
           schedules[bookings[b].bus_schedule_id].status = "scheduled"
    /\ \A x \in DOMAIN seats :
           schedules[seats[x].bus_schedule_id].status /= "scheduled"
           => seats[x].is_available

\* C16: for a booking owned by another user, get_booking, get_booking_details
\* and cancel_booking answer booking-not-found as they do for an id that
\* does not exist (0 is the id of no booking), such a cancel_booking changes
\* no table, and get_bookings lists only the bookings of the requesting user.
C16_ScopedToOwner ==
    [][/\ \A u \in Users, b \in DOMAIN bookings :
             bookings[b].user_id /= u
             => /\ GetBooking(u, b) = "booking_not_found"
                /\ GetBooking(u, b) = GetBooking(u, 0)
                /\ GetBookingDetails(u, b) = "booking_not_found"
                /\ GetBookingDetails(u, b) = GetBookingDetails(u, 0)
       /\ \A u \in Users :
             GetBookings(u) = {b \in DOMAIN bookings : bookings[b].user_id = u}
       /\ \A u \in Users, b \in DOMAIN bookings :
             /\ req[1].pc = "done" /\ req'[1].op = "cancel"
             /\ bookings[b].user_id /= u
             /\ CancelBooking_Begin(1, u, b)
             => /\ req'[1] = Done("cancel", "booking_not_found")
                /\ Database' = Database]_vars

\* every booking id of the requests names a booking of user 1, and the last
\* cancellation was answered booking-not-found: it came from the other user
C16_Witness ==
    /\ req[1] = Done("cancel", "booking_not_found")
    /\ DOMAIN bookings = 1..MaxBookings
    /\ \A b \in DOMAIN bookings :
          bookings[b].user_id = 1 /\ bookings[b].status = "confirmed"

\* wallet rows of a user
WalletsOf(user) == {w \in DOMAIN wallets : wallets[w].user_id = user}

\* C17: no user ever has more than one wallet, also when get_wallet and
\* add_money requests of a user without a wallet run concurrently and both
\* find no wallet.
C17_OneWalletPerUser ==
    \A u \in Users : Cardinality(WalletsOf(u)) <= 1

\* two requests found no wallet for the same user: one created it, the
\* other was stopped by the unique constraint
C17_Witness ==
    \E p, q \in Procs, u \in Users :
        /\ req[p].op \in {"wallet", "add"} /\ req[p].result = "integrity_error"
        /\ req[q].op \in {"wallet", "add"} /\ req[q].result = "ok"
        /\ Cardinality(WalletsOf(u)) = 1

\* C18: every debit transaction of a wallet-paid booking carries the id of
\* the booking it paid for as its reference, whichever front end made the
\* booking.
C18_DebitReferencesBooking ==
    \A t \in BagToSet(transactions) :
        t.type = "debit"
        => /\ t.reference_id \in DOMAIN bookings
           /\ bookings[t.reference_id].payment_method = "wallet"
           /\ bookings[t.reference_id].total_amount = t.amount

\* C19: cancel_booking credits the wallet exactly when the booking was paid
\* from the wallet: cancelling a booking paid otherwise releases its seats
\* and sets it cancelled but leaves wallets and transaction log as they
\* were, and creating a booking paid otherwise changes neither.
C19_RefundOnlyWalletPaid ==
    [][\A p \in Procs :
          /\ CancelStep(p) /\ req'[p].result = "ok"
              => LET b == req[p].booking_id
                     old == hist.pre
                 IN  IF old.bookings[b].payment_method = "wallet"
                     THEN /\ BagCardinality(transactions')
                                = BagCardinality(old.transactions) + 1
                          /\ \E t \in BagToSet(transactions') :
                                /\ t.type = "credit" /\ t.reference_id = b
                                /\ CopiesIn(t, transactions')
                                      = CopiesIn(t, old.transactions) + 1
                     ELSE /\ wallets' = old.wallets
                          /\ transactions' = old.transactions
                          /\ bookings'[b].status = "cancelled"
                          /\ \A x \in Range(req[p].seat_ids) :
                                seats'[x].is_available
          /\ BookingStep(p) /\ req'[p].result = "ok"
                /\ req[p].payment_method /= "wallet"
              => /\ wallets' = hist.pre.wallets
                 /\ transactions' = hist.pre.transactions]_vars

\* a booking paid by card was cancelled while its owner had money in the
\* wallet, and no wallet-paid booking was cancelled
C19_Witness ==
    /\ req[1] = Done("cancel", "ok")
    /\ \E b \in DOMAIN bookings :
          bookings[b].status = "cancelled" /\ bookings[b].payment_method = "card"
    /\ \A b \in DOMAIN bookings :
          bookings[b].status = "cancelled" => bookings[b].payment_method = "card"
    /\ \E w \in DOMAIN wallets : wallets[w].balance > 0

\* C20: for a user who has a wallet and a booking request that passed the
\* schedule and seat checks, the request is refused for insufficient balance
\* exactly when the sum of the seats' prices exceeds the balance; when the
\* sum equals the balance the booking succeeds, leaves the balance at zero
\* and appends one debit transaction of that sum.
C20_InsufficientExactly ==
    [][\A p \in Procs :
          /\ /\ req[p].op \in {"create", "book"}
              /\ req[p].pc = "wallet"
              /\ req'[p] /= req[p]
              /\ WalletIdOf(req[p].user) /= 0
              => ((req'[p].pc = "done" /\ req'[p].result = "insufficient_balance")
                    <=> PriceSum(req[p].seat_ids, seats)
                           > wallets[WalletIdOf(req[p].user)].balance)
          /\ /\ BookingStep(p) /\ req'[p].result = "ok"
              /\ req[p].payment_method = "wallet"
              /\ PriceSum(req[p].seat_ids, hist.pre.seats)
                    = hist.pre.wallets[req[p].l_wallet].balance
              => /\ wallets'[req[p].l_wallet].balance = 0
                 /\ BagCardinality(transactions')
                       = BagCardinality(hist.pre.transactions) + 1
                 /\ \E t \in BagToSet(transactions') :
                       /\ t.type = "debit"
                       /\ t.wallet_id = req[p].l_wallet
                       /\ t.amount = PriceSum(req[p].seat_ids, hist.pre.seats)
                       /\ CopiesIn(t, transactions')
                             = CopiesIn(t, hist.pre.transactions) + 1]_vars

\* balance of the user's wallet in a wallets table, 0 when there is none
BalanceOf(wallet_table, user) ==
    IF \E w \in DOMAIN wallet_table : wallet_table[w].user_id = user
    THEN wallet_table[CHOOSE w \in DOMAIN wallet_table :
                          wallet_table[w].user_id = user].balance
    ELSE 0

\* C21: add_money with an amount above zero succeeds whatever the balance,
\* creates the wallet if the user has none, raises the balance by exactly the
\* amount and appends exactly one credit transaction of the amount; with an
\* amount of zero or below it is rejected and changes no table.
C21_AddMoneyEffect ==
    [][/\ /\ req[1].op = "add" /\ req[1].pc /= "done" /\ req'[1].pc = "done"
          => /\ req'[1].result = "ok"
             /\ BalanceOf(wallets', req[1].user)
                   = BalanceOf(hist.pre.wallets, req[1].user) + req[1].amount
             /\ \E w \in DOMAIN wallets' :
                   /\ wallets'[w].user_id = req[1].user
                   /\ transactions' = hist.pre.transactions
                         (+) SetToBag({CreditTransaction(w, req[1].amount)})
       /\ \A user \in Users, amount \in WalletAmounts :
             /\ req[1].pc = "done" /\ req'[1].op = "add"
             /\ AddMoney_Begin(1, user, amount)
             => IF amount > 0
                THEN req'[1].pc /= "done"
                ELSE /\ req'[1] = Done("add", "validation_error")
                     /\ Database' = Database]_vars

\* no seat row of the schedule has this id
ForeignSeat(x, schedule_id) ==
    x \notin DOMAIN seats \/ seats[x].bus_schedule_id /= schedule_id

\* the first seat of the list that fails a check is one the schedule does
\* not have
FirstFaultIsForeign(seat_ids, schedule_id) ==
    \E i \in DOMAIN seat_ids :
        /\ ForeignSeat(seat_ids[i], schedule_id)
        /\ \A j \in 1..(i - 1) :
              /\ ~ForeignSeat(seat_ids[j], schedule_id)
              /\ seats[seat_ids[j]].is_available

ParsedArgs(r) == [i \in 1..4 |-> JsonLoads(r.args[i])]

\* C23: book_seats rejects a call whose four lists (seat ids, names, ages,
\* genders) are not all of one length, before its first query and with no
\* table changed.
C23_LengthsChecked ==
    [][/\ req[1].op = "book" /\ req[1].pc = "parse" /\ req'[1] /= req[1]
       /\ \A i \in 1..4 : ParsedArgs(req[1])[i].type = "list"
       /\ \E i, j \in 1..4 :
             PyLen(ParsedArgs(req[1])[i]) /= PyLen(ParsedArgs(req[1])[j])
       => /\ req'[1] = Done("book", "length_mismatch")
          /\ Database' = hist.pre]_vars

\* C24: a call of book_seats with an argument that is not JSON, or is JSON
\* but not a list, ends with an error text and leaves every table as it was
\* before the call.
C24_UnparsableRejected ==
    [][/\ /\ req[1].op = "book" /\ req[1].pc = "parse" /\ req'[1] /= req[1]
          /\ \E i \in 1..4 : ParsedArgs(req[1])[i].type = "JSONDecodeError"
          => /\ req'[1] = Done("book", "error_during_booking")
             /\ Database' = hist.pre
       /\ /\ req[1].op = "book" /\ req[1].pc /= "done" /\ req'[1].pc = "done"
          /\ req[1].args /= <<>>
          /\ \E i \in 1..4 : ParsedArgs(req[1])[i].type /= "list"
          => /\ req'[1].result /= "ok"
             /\ Database' = hist.pre]_vars

\* C25: every transaction in the log of a wallet, from add_money, from a
\* wallet-paid booking of either front end or from a cancellation refund,
\* has an amount above zero.
C25_AmountsPositive ==
    \A t \in BagToSet(transactions) : t.amount > 0

\* C26: every booking has at least one passenger row, whatever passenger
\* list create_booking or book_seats accepted.
C26_BookingHasPassenger ==
    \A b \in DOMAIN bookings :
        \E i \in DOMAIN booking_passengers : booking_passengers[i].booking_id = b

\* C27: a successful cancel_booking changes only the booking's status and
\* cancelled_at, the is_available flags of its seats, the counter of its
\* schedule and, for a wallet-paid booking, the owner's wallet and the log:
\* passenger rows, total_amount, payment_method, booking_code and owner of
\* the booking, and every other row, are as they were before the call.
C27_CancelFrame ==
    [][\A p \in Procs :
          CancelStep(p) /\ req'[p].result = "ok"
          => LET b == req[p].booking_id
                 old == hist.pre
                 held == Range(PassengerSeats(old.booking_passengers, b))
             IN  /\ booking_passengers' = old.booking_passengers
                 /\ DOMAIN bookings' = DOMAIN old.bookings
                 /\ \A c \in DOMAIN bookings' :
                       bookings'[c] =
                           IF c = b
                           THEN [old.bookings[c] EXCEPT
                                   !.status = bookings'[c].status,
                                   !.cancelled_at = bookings'[c].cancelled_at]
                           ELSE old.bookings[c]
                 /\ \A x \in DOMAIN seats :
                       seats'[x] =
                           IF x \in held
                           THEN [old.seats[x] EXCEPT
                                   !.is_available = seats'[x].is_available]
                           ELSE old.seats[x]
                 /\ \A s \in DOMAIN schedules :
                       schedules'[s] =
                           IF s = old.bookings[b].bus_schedule_id
                           THEN [old.schedules[s] EXCEPT
                                   !.available_seats = schedules'[s].available_seats]
                           ELSE old.schedules[s]
                 /\ DOMAIN wallets' = DOMAIN old.wallets
                 /\ \A w \in DOMAIN wallets' :
                       wallets'[w] =
                           IF old.bookings[b].payment_method = "wallet"
                              /\ old.wallets[w].user_id = old.bookings[b].user_id
                           THEN [old.wallets[w] EXCEPT
                                   !.balance = wallets'[w].balance]
                           ELSE old.wallets[w]
                 /\ old.bookings[b].payment_method /= "wallet"
                       => transactions' = old.transactions]_vars

\* a paid booking of two seats was cancelled and still has its two
\* passenger rows
C27_Witness ==
    /\ req[1] = Done("cancel", "ok")
    /\ \E b \in DOMAIN bookings :
          /\ bookings[b].status = "cancelled"
          /\ bookings[b].total_amount > 0
          /\ Len(PassengerSeats(booking_passengers, b)) = 2

\* book_seats, run alone on the present tables, gets as far as its booking
\* INSERT: the request as it stands there, or its error
BookSeats_Checked(user, schedule_id, seat_ids) ==
    LET started == BookSeats_Started(user, schedule_id, seat_ids)
        w == WalletIdOf(user)
    IN  IF started.pc = "done" THEN started
        ELSE IF w = 0 THEN Done("book", "wallet_not_found")
        ELSE IF InsufficientBalance(wallets[w].balance, started.total_amount)
        THEN Done("book", "insufficient_balance")
        ELSE [started EXCEPT !.l_wallet = w, !.l_balance = wallets[w].balance,
                             !.pc = "flush"]

\* C28: for every state and every wallet-paid request for distinct seats,
\* create_booking and book_seats are equivalent: when create_booking fails,
\* book_seats with the same arguments fails too and nothing changes; when
\* create_booking succeeds, book_seats succeeds too, with the same balance,
\* seat flags, counter, booking status, total_amount and passenger rows.
\* Failures on the generated code are left aside.
C28_FrontEndsEquivalent ==
    [][/\ \A user \in Bookers, schedule_id \in ScheduleIds, seat_ids \in SeatLists :
             /\ req[1].pc = "done" /\ req'[1].op = "create" /\ req'[1].pc = "done"
             /\ IsDistinct(seat_ids)
             /\ CreateBooking_Begin(1, user, schedule_id, seat_ids, "wallet")
             => /\ BookSeats_Checked(user, schedule_id, seat_ids).pc = "done"
                /\ Database' = Database
       /\ /\ req[1].op = "create" /\ req[1].pc \notin {"done", "commit"}
          /\ req'[1].pc = "done" /\ req'[1].result /= "integrity_error"
          /\ req[1].payment_method = "wallet"
          /\ IsDistinct(req[1].seat_ids)
          => /\ BookSeats_Checked(req[1].user, req[1].schedule_id,
                                  req[1].seat_ids).pc = "done"
             /\ Database' = hist.pre
       /\ /\ BookingStep(1) /\ req[1].op = "create" /\ req'[1].result = "ok"
          /\ req[1].payment_method = "wallet"
          /\ IsDistinct(req[1].seat_ids)
          => LET r == req[1]
                 a == [BookSeats_Checked(r.user, r.schedule_id, r.seat_ids)
                         EXCEPT !.booking_id = r.booking_id]
             IN  /\ a.pc = "flush"
                 /\ wallets' = DebitedWallets(a)
                 /\ \A x \in DOMAIN seats :
                       seats'[x].is_available =
                           (seats[x].is_available /\ x \notin Range(a.seat_ids))
                 /\ schedules'[a.schedule_id].available_seats =
                       a.l_available_seats - Len(a.seat_ids)
                 /\ bookings'[r.booking_id].status = "confirmed"
                 /\ bookings'[r.booking_id].total_amount = a.total_amount
                 /\ booking_passengers' = booking_passengers \o PassengerRows(a)]_vars

\* C29: search_buses returns, for the routes and the date of the search,
\* exactly the schedules that are scheduled and have a counter above zero, in
\* non-decreasing order of departure time; a schedule whose counter a booking
\* brings to zero is no longer found, and is found again once a cancellation
\* raises the counter.
C29_SearchResults ==
    [][/\ \A route_ids \in RouteSets, travel_date \in TravelDates :
             /\ req[1].pc = "done" /\ req'[1].op = "search"
             /\ SearchBuses_Call(1, route_ids, travel_date)
             => LET found == req'[1].found IN
                /\ Range(found) =
                      {s \in DOMAIN schedules :
                          /\ ScheduleRoute(s) \in route_ids
                          /\ TravelDate(s) = travel_date
                          /\ schedules[s].status = "scheduled"
                          /\ schedules[s].available_seats > 0}
                /\ IsDistinct(found)
                /\ \A i, j \in DOMAIN found :
                      i < j => DepartureTime(found[i]) <= DepartureTime(found[j])
                /\ Database' = Database
       /\ \A s \in DOMAIN schedules :
             LET after == Range(SearchBuses(schedules', {ScheduleRoute(s)},
                                            TravelDate(s)))
             IN  /\ BookingStep(1) /\ schedules'[s].available_seats = 0
                    => s \notin after
                 /\ /\ CancelStep(1) /\ schedules[s].status = "scheduled"
                    /\ schedules[s].available_seats = 0
                    /\ schedules'[s].available_seats > 0
                    => s \in after]_vars

\* a search found both schedules, the earlier departure first, after a
\* sold-out schedule got its seats back by a cancellation
C29_Witness ==
    /\ req[1].op = "search"
    /\ req[1].found = <<2, 1>>
    /\ \E b \in DOMAIN bookings :
          /\ bookings[b].status = "cancelled"
          /\ Len(PassengerSeats(booking_passengers, b))
                = Cardinality({x \in DOMAIN seats :
                     seats[x].bus_schedule_id = bookings[b].bus_schedule_id})

\* bookings of the given status that have a passenger row on seat x
HoldersWithStatus(x, status) ==
    {b \in DOMAIN bookings :
        /\ bookings[b].status = status
        /\ \E i \in DOMAIN booking_passengers :
              /\ booking_passengers[i].booking_id = b
              /\ booking_passengers[i].seat_id = x}

\* C30: after any sequence of booking and cancellation calls of either front
\* end, each run to completion, a seat is unavailable exactly when a passenger
\* row of exactly one confirmed booking refers to it, and an available seat
\* is referred to by no confirmed booking.  Seats of completed trips are left
\* aside.
C30_FlagMatchesConfirmedBooking ==
    \A x \in DOMAIN seats :
        HoldersWithStatus(x, "completed") = {}
        => /\ ~seats[x].is_available
                 <=> Cardinality(HoldersWithStatus(x, "confirmed")) = 1
           /\ seats[x].is_available => HoldersWithStatus(x, "confirmed") = {}

\* one seat is held by a confirmed booking while another, once booked, is
\* free again after the cancellation of its booking
C30_Witness ==
    \E x, y \in DOMAIN seats :
        /\ ~seats[x].is_available
        /\ HoldersWithStatus(x, "confirmed") /= {}
        /\ seats[y].is_available
        /\ HoldersWithStatus(y, "cancelled") /= {}

\* passenger rows of one booking name pairwise different seats
SeatOncePerBooking ==
    \A i, j \in DOMAIN booking_passengers :
        /\ i /= j
        /\ booking_passengers[i].booking_id = booking_passengers[j].booking_id
        => booking_passengers[i].seat_id /= booking_passengers[j].seat_id

\* C31: no booking has two passenger rows for one seat: a request of
\* create_booking or book_seats whose list names a seat id more than once
\* ends in an error and leaves the tables as they were, so the seat is not
\* charged twice and not counted twice in the counter.
C31_SeatNamedOnce ==
    [][/\ SeatOncePerBooking'
       /\ \A p \in Procs :
            /\ req[p].pc /= "done" /\ req'[p].pc = "done"
            /\ req[p].op \in {"create", "book"}
            /\ ~IsDistinct(req[p].seat_ids)
            => /\ req'[p].result /= "ok"
               /\ Database' = hist.pre]_vars

\* C32: in every committed state the available_seats counter of every
\* schedule lies between 0 and the number of seat rows of that schedule,
\* whatever bookings and cancellations were made.
C32_CounterInRange ==
    \A s \in DOMAIN schedules :
        /\ schedules[s].available_seats >= 0
        /\ schedules[s].available_seats
              <= Cardinality({x \in DOMAIN seats : seats[x].bus_schedule_id = s})

\* exact sum of total_amount over a set of booking ids
RECURSIVE TotalAmountSum(_)
TotalAmountSum(ids) ==
    IF ids = {} THEN 0
    ELSE LET b == CHOOSE x \in ids : TRUE
         IN  bookings[b].total_amount + TotalAmountSum(ids \ {b})

\* the confirmed bookings a user paid from the wallet
ConfirmedWalletBookings(user) ==
    {b \in DOMAIN bookings :
        /\ bookings[b].user_id = user
        /\ bookings[b].status = "confirmed"
        /\ bookings[b].payment_method = "wallet"}

\* exact sum of the amounts the user added through add_money: the credit
\* rows of the user's wallet that refer to no booking
AddedSum(user) ==
    AmountSum({t \in BagToSet(transactions) :
                  /\ t.wallet_id \in DOMAIN wallets
                  /\ wallets[t.wallet_id].user_id = user
                  /\ t.type = "credit" /\ t.reference_id = 0}, transactions)

\* C33: money is conserved per user: between requests, as long as no trip
\* was completed, the wallet balance plus the totals of the user's
\* confirmed wallet-paid bookings equals the sum of the amounts the user
\* added; cancelled bookings count for nothing.
C33_MoneyConserved ==
    \A user \in Users :
        /\ Idle
        /\ \A b \in DOMAIN bookings : bookings[b].status /= "completed"
        => BalanceOf(wallets, user)
              + TotalAmountSum(ConfirmedWalletBookings(user))
           = AddedSum(user)

\* C34: a successful booking flips the is_available flag of exactly the
\* requested seats, changes the counter of the requested schedule only and
\* the wallet of the requesting user only: every other seat, every other
\* schedule, every other user's wallet, every existing booking and its
\* passenger rows are as before; a successful cancel_booking changes the
\* flags of the seats of the cancelled booking only.
C34_BookingFrame ==
    [][\A p \in Procs :
          /\ BookingStep(p) /\ req'[p].result = "ok"
             => LET r == req[p]
                    old == hist.pre
                IN  /\ \A x \in DOMAIN seats :
                          seats'[x] =
                              IF x \in Range(r.seat_ids)
                              THEN [old.seats[x] EXCEPT
                                      !.is_available = ~old.seats[x].is_available]
                              ELSE old.seats[x]
                    /\ \A s \in DOMAIN schedules :
                          schedules'[s] =
                              IF s = r.schedule_id
                              THEN [old.schedules[s] EXCEPT
                                      !.available_seats = schedules'[s].available_seats]
                              ELSE old.schedules[s]
                    /\ DOMAIN wallets' = DOMAIN old.wallets
                    /\ \A w \in DOMAIN wallets' :
                          old.wallets[w].user_id /= r.user
                          => wallets'[w] = old.wallets[w]
                    /\ \A b \in DOMAIN old.bookings :
                          b \in DOMAIN bookings' /\ bookings'[b] = old.bookings[b]
                    /\ \A i \in DOMAIN old.booking_passengers :
                          booking_passengers'[i] = old.booking_passengers[i]
          /\ CancelStep(p) /\ req'[p].result = "ok"
             => LET old == hist.pre
                    held == Range(PassengerSeats(old.booking_passengers,
                                                 req[p].booking_id))
                IN  \A x \in DOMAIN seats :
                       x \notin held => seats'[x] = old.seats[x]]_vars

\* one user's wallet-paid booking was committed while the other user has a
\* wallet with money, an earlier booking exists and a seat of another
\* schedule is taken
C34_Witness ==
    /\ req[1].op \in {"create", "book"} /\ req[1].result = "ok"
    /\ \E w1, w2 \in DOMAIN wallets :
          /\ wallets[w1].user_id /= wallets[w2].user_id
          /\ wallets[w1].balance > 0 /\ wallets[w2].balance > 0
    /\ \E b, c \in DOMAIN bookings :
          /\ b < c
          /\ bookings[b].user_id /= bookings[c].user_id
          /\ bookings[b].bus_schedule_id /= bookings[c].bus_schedule_id
          /\ bookings[c].payment_method = "wallet"

\* the total of a request for seats of one schedule, as sum() computes it
\* over the rows in id order
RequestTotal(seat_ids, seat_table) ==
    LET rows == SortedSeq(Range(seat_ids))
    IN  FloatSumFrom(0, [i \in 1..Len(rows) |-> seat_table[rows[i]].price])

\* the first check of the documented order that the request fails on the
\* tables `old`, "ok" when it passes them all
FirstFailure(user, schedule_id, seat_ids, payment_method, old) ==
    IF schedule_id \notin DOMAIN old.schedules
    THEN "schedule_not_found"
    ELSE IF old.schedules[schedule_id].status /= "scheduled"
    THEN "schedule_not_bookable"
    ELSE IF \E x \in Range(seat_ids) :
               x \notin DOMAIN old.seats
                   \/ old.seats[x].bus_schedule_id /= schedule_id
    THEN "seat_not_found"
    ELSE IF \E x \in Range(seat_ids) : ~old.seats[x].is_available
    THEN "seat_unavailable"
    ELSE IF /\ payment_method = "wallet"
            /\ \A w \in DOMAIN old.wallets :
                  old.wallets[w].user_id = user
                  => old.wallets[w].balance < RequestTotal(seat_ids, old.seats)
    THEN "insufficient_balance"
    ELSE "ok"

\* C35: create_booking reports the first check that fails, in the order
\* schedule not found, schedule not bookable, seat not found, seat
\* unavailable, insufficient balance: a wallet-paid request with an
\* unavailable seat and a total above the balance gets the seat-unavailable
\* error, a user without a wallet row the insufficient-balance error.  The
\* lists are those that name no seat twice.
C35_FirstFailureReported ==
    [][/\ \A user \in Bookers, schedule_id \in ScheduleIds,
             seat_ids \in SeatLists, payment_method \in PaymentMethods :
             /\ req[1].pc = "done" /\ req'[1].op = "create"
             /\ CreateBooking_Begin(1, user, schedule_id, seat_ids, payment_method)
             => LET first == FirstFailure(user, schedule_id, seat_ids,
                                          payment_method, Database)
                IN  IF first \in {"schedule_not_found", "schedule_not_bookable"}
                    THEN req'[1] = Done("create", first)
                    ELSE req'[1].pc /= "done"
       /\ /\ req[1].op = "create" /\ req[1].pc /= "done" /\ req'[1].pc = "done"
          /\ IsDistinct(req[1].seat_ids)
          => LET first == FirstFailure(req[1].user, req[1].schedule_id,
                              req[1].seat_ids, req[1].payment_method, hist.pre)
             IN  IF first = "ok"
                 THEN req'[1].result \in {"ok", "integrity_error"}
                 ELSE req'[1].result = first]_vars

\* a wallet-paid request that names a taken seat and costs more than the
\* user's balance has passed the schedule checks
C35_Witness ==
    /\ req[1].op = "create" /\ req[1].pc = "seats"
    /\ req[1].payment_method = "wallet"
    /\ \E x \in Range(req[1].seat_ids) :
          x \in DOMAIN seats /\ ~seats[x].is_available
    /\ FirstFailure(req[1].user, req[1].schedule_id, req[1].seat_ids,
                    "card", Database) = "seat_unavailable"
    /\ BalanceOf(wallets, req[1].user) < RequestTotal(req[1].seat_ids, seats)

\* number of the messages of a session in a chat_messages table
MessageCount(messages, s) ==
    Cardinality({i \in DOMAIN messages : messages[i].session_id = s})

\* C36: a chat request naming a session that is ended, does not exist or
\* belongs to another user is rejected with not-found and appends no
\* message; once a session is ended no message is appended to it, not even
\* by a chat request that was in progress when it was ended; and an ended
\* session stays ended.
C36_EndedSessionClosed ==
    [][/\ \A s \in DOMAIN chat_sessions :
             ~chat_sessions[s].is_active
             => /\ ~chat_sessions'[s].is_active
                /\ MessageCount(chat_messages', s) = MessageCount(chat_messages, s)
       /\ \A p \in Procs, user \in Users, session_id \in ChatSessionIds \ {0} :
             /\ chat[p].pc = "done" /\ chat'[p].op = "chat"
             /\ ChatWithAgent_Begin(p, user, session_id)
             /\ \/ session_id \notin DOMAIN chat_sessions
                \/ chat_sessions[session_id].user_id /= user
                \/ ~chat_sessions[session_id].is_active
             => /\ chat'[p] = ChatDone("chat", "session_not_found")
                /\ chat_messages' = chat_messages
                /\ chat_sessions' = chat_sessions]_vars

\* C37: for every bus, whatever its total_seats, its layout and its type,
\* create_seats adds exactly bus.total_seats seat rows, all available, so
\* that the counter of the freshly created schedule, set to
\* bus.total_seats, equals the number of its available seats.
C37_SeatsMatchTotalSeats ==
    \A s \in DOMAIN schedules :
        LET rows == {x \in DOMAIN seats : seats[x].bus_schedule_id = s}
        IN  /\ Cardinality(rows) = buses[schedules[s].bus_id].total_seats
            /\ \A x \in rows : seats[x].is_available
            /\ schedules[s].available_seats
                  = Cardinality({x \in rows : seats[x].is_available})

=============================================================================
